---- MODULE Spec2Model ----
(***************************************************************************)
(* Corpus synthesis engine of scripts/corpus_generator.py: the template    *)
(* registry, augment_question, _process_concepto, _process_ministerio,     *)
(* _generate_greeting_examples, generate_corpus and save_corpus; and the   *)
(* row tracking of process_excel_data in excel_to_json_converter.py        *)
(* (SpecConvert).                                                          *)
(*                                                                         *)
(* Text is modelled character by character: a string is a sequence of      *)
(* characters, a character is a one-letter TLA+ string, a non-ASCII letter *)
(* is written as a two-letter token ("a1" for a-acute, "e2" for e-grave,   *)
(* "u3" for u-circumflex, "n5" for n-tilde, "c5" for c-cedilla, "iq" for   *)
(* the inverted question mark) and a str.format field keeps its source     *)
(* spelling ("{concepto}").                                                *)
(*                                                                         *)
(* A JSON value is a tagged record: [t |-> "dict", v |-> function on its   *)
(* keys], [t |-> "list", v |-> sequence of values], [t |-> "str", v |->    *)
(* string].  isinstance(x, dict) is x.t = "dict".                          *)
(*                                                                         *)
(* The `random` module is a stream of draws u/RawMod in [0,1).  In the     *)
(* whole-run specification Spec the stream is periodic with period TapeLen *)
(* and chosen freely at start (the seed); in SpecAug every draw of         *)
(* augment_question is chosen freely at each stage.  SpecConcept and       *)
(* SpecMinistry run one _process_concepto, one _process_ministerio call on *)
(* a fresh generator, SpecResolve the field resolution of one language.    *)
(***************************************************************************)
EXTENDS Integers, Sequences, FiniteSets, TLC

\* ------------------------------------------------------------------ bounds
RawMod == 5           \* resolution of one random draw: u is raw/RawMod
TapeLen == 2          \* period of the random stream of a whole run
MaxExamples == 1      \* largest num_examples_per_concept tried
MaxCalls == 2         \* calls of generate_corpus() on one generator
MaxRepeat == 3        \* largest num_examples_per_concept of a single _process_concepto call
MaxRows == 3          \* most rows of a sheet handed to process_excel_data

\* ------------------------------------------------------- program constants
AugmentationProb == 300     \* augmentation_prob default 0.3, in 1/1000
ProbScale == 1000

Languages == <<"es", "fr", "en">>      \* list(QUESTION_TEMPLATES.keys())

\* --------------------------------------------------------------- characters
LowerCaseLetters ==
  <<"a","b","c","d","e","f","g","h","i","j","k","l","m","n","o","p","q","r",
    "s","t","u","v","w","x","y","z",
    "a1","e1","i1","o1","u1","a2","e2","i2","o2","u2","a3","e3","i3","o3","u3",
    "a4","e4","i4","o4","u4","n5","c5">>

UpperCaseLetters ==
  <<"A","B","C","D","E","F","G","H","I","J","K","L","M","N","O","P","Q","R",
    "S","T","U","V","W","X","Y","Z",
    "A1","E1","I1","O1","U1","A2","E2","I2","O2","U2","A3","E3","I3","O3","U3",
    "A4","E4","I4","O4","U4","N5","C5">>

Range(s) == {s[i] : i \in 1..Len(s)}

LowerSet == Range(LowerCaseLetters)
UpperSet == Range(UpperCaseLetters)

\* first index of x in s (list.index); 0 when absent
IndexOf(s, x) ==
  IF \E i \in 1..Len(s) : s[i] = x
  THEN CHOOSE i \in 1..Len(s) : s[i] = x /\ \A j \in 1..(i-1) : s[j] # x
  ELSE 0

\* str.isalpha() of one character
IsAlpha(c) == c \in LowerSet \/ c \in UpperSet

\* str.upper() of one character
UpperChar(c) == IF c \in LowerSet THEN UpperCaseLetters[IndexOf(LowerCaseLetters, c)] ELSE c

\* str.lower() of one character
LowerChar(c) == IF c \in UpperSet THEN LowerCaseLetters[IndexOf(UpperCaseLetters, c)] ELSE c

\* str.lower()
Lower(s) == [i \in 1..Len(s) |-> LowerChar(s[i])]

\* ------------------------------------------------------------------ strings
\* s[n:]
Drop(s, n) == IF n >= Len(s) THEN <<>> ELSE SubSeq(s, n + 1, Len(s))

\* s[:n]
Take(s, n) == IF n >= Len(s) THEN s ELSE SubSeq(s, 1, n)

\* s.startswith(p)
StartsWith(s, p) == Len(s) >= Len(p) /\ SubSeq(s, 1, Len(p)) = p

\* s.endswith(c) for a one-character c
EndsWith(s, c) == Len(s) > 0 /\ s[Len(s)] = c

\* sub in s
Contains(s, sub) ==
  \E i \in 0..(Len(s) - Len(sub)) : SubSeq(s, i + 1, i + Len(sub)) = sub

\* any(keyword in s for keyword in keywords)
ContainsAny(s, keywords) == \E k \in 1..Len(keywords) : Contains(s, keywords[k])

RECURSIVE LStrip(_)
LStrip(s) == IF s # <<>> /\ s[1] = " " THEN LStrip(Tail(s)) ELSE s

RECURSIVE RStrip(_)
RStrip(s) == IF s # <<>> /\ s[Len(s)] = " " THEN RStrip(SubSeq(s, 1, Len(s) - 1)) ELSE s

\* s.strip()
Strip(s) == RStrip(LStrip(s))

\* s.split(sep) for a one-character sep: empty pieces are kept
SplitOn(s, sep) ==
  LET cuts == {i \in 1..Len(s) : s[i] = sep}
      n == Cardinality(cuts)
      \* the position of the k-th separator; 0 and Len(s) + 1 close the ends
      cut == [k \in 0..(n + 1) |->
                IF k = 0 THEN 0
                ELSE IF k = n + 1 THEN Len(s) + 1
                ELSE CHOOSE i \in cuts : Cardinality({j \in cuts : j <= i}) = k]
  IN  [k \in 1..(n + 1) |-> SubSeq(s, cut[k - 1] + 1, cut[k] - 1)]

\* s.split(): pieces between runs of blanks, empty pieces dropped
Words(s) == SelectSeq(SplitOn(s, " "), LAMBDA w : w # <<>>)

\* sep.join(items)
RECURSIVE Join(_, _)
Join(items, sep) ==
  IF items = <<>> THEN <<>>
  ELSE IF Len(items) = 1 THEN items[1]
  ELSE LET half == Len(items) \div 2
       IN  Join(SubSeq(items, 1, half), sep) \o sep \o Join(SubSeq(items, half + 1, Len(items)), sep)

\* template.format(**fields): every field token is replaced by its value
RECURSIVE Format(_, _)
Format(t, fields) ==
  IF \E i \in 1..Len(t) : t[i] \in DOMAIN fields
  THEN LET i == CHOOSE k \in 1..Len(t) : t[k] \in DOMAIN fields /\ \A j \in 1..(k-1) : t[j] \notin DOMAIN fields
       IN  Take(t, i - 1) \o fields[t[i]] \o Format(Drop(t, i), fields)
  ELSE t

QUESTION_TEMPLATES ==
  [
   es |-> <<
      <<"iq","C","u","a1","n","t","o"," ","c","u","e","s","t","a"," ","{concepto}","?">>,
      <<"iq","C","u","a1","l"," ","e","s"," ","e","l"," ","p","r","e","c","i","o"," ","d","e"," ","{concepto}","?">>,
      <<"iq","C","u","a1","n","t","o"," ","t","e","n","g","o"," ","q","u","e"," ","p","a","g","a","r"," ","p","o","r"," ","{concepto}","?">>,
      <<"iq","C","u","a1","l"," ","e","s"," ","l","a"," ","t","a","s","a"," ","d","e"," ","{concepto}","?">>,
      <<"iq","Q","u","e1"," ","d","o","c","u","m","e","n","t","o","s"," ","n","e","c","e","s","i","t","o"," ","p","a","r","a"," ","{concepto}","?">>,
      <<"iq","Q","u","e1"," ","d","o","c","u","m","e","n","t","o","s"," ","s","e"," ","r","e","q","u","i","e","r","e","n"," ","p","a","r","a"," ","{concepto}","?">>,
      <<"iq","Q","u","e1"," ","d","o","c","u","m","e","n","t","a","c","i","o1","n"," ","d","e","b","o"," ","p","r","e","s","e","n","t","a","r"," ","p","a","r","a"," ","{concepto}","?">>,
      <<"iq","C","u","a1","l","e","s"," ","s","o","n"," ","l","o","s"," ","r","e","q","u","i","s","i","t","o","s"," ","p","a","r","a"," ","{concepto}","?">>,
      <<"iq","C","u","a1","l"," ","e","s"," ","e","l"," ","p","r","o","c","e","d","i","m","i","e","n","t","o"," ","p","a","r","a"," ","{concepto}","?">>,
      <<"iq","C","o1","m","o"," ","p","u","e","d","o"," ","o","b","t","e","n","e","r"," ","{concepto}","?">>,
      <<"iq","C","u","a1","l"," ","e","s"," ","e","l"," ","p","r","o","c","e","s","o"," ","p","a","r","a"," ","{concepto}","?">>,
      <<"iq","D","o1","n","d","e"," ","p","u","e","d","o"," ","t","r","a","m","i","t","a","r"," ","{concepto}","?">>,
      <<"iq","A"," ","q","u","e1"," ","m","i","n","i","s","t","e","r","i","o"," ","p","e","r","t","e","n","e","c","e"," ","{concepto}","?">>,
      <<"iq","Q","u","e1"," ","m","i","n","i","s","t","e","r","i","o"," ","s","e"," ","e","n","c","a","r","g","a"," ","d","e"," ","{concepto}","?">>,
      <<"iq","Q","u","e1"," ","d","e","p","a","r","t","a","m","e","n","t","o"," ","g","e","s","t","i","o","n","a"," ","{concepto}","?">>,
      <<"N","e","c","e","s","i","t","o"," ","i","n","f","o","r","m","a","c","i","o1","n"," ","s","o","b","r","e"," ","{concepto}">>,
      <<"H","a1","b","l","a","m","e"," ","d","e"," ","{concepto}">>,
      <<"E","x","p","l","i1","c","a","m","e"," ","{concepto}">>,
      <<"iq","C","u","a1","n","t","o"," ","c","u","e","s","t","a"," ","r","e","n","o","v","a","r"," ","{concepto}","?">>,
      <<"iq","C","u","a1","l"," ","e","s"," ","e","l"," ","c","o","s","t","o"," ","d","e"," ","r","e","n","o","v","a","c","i","o1","n"," ","d","e"," ","{concepto}","?">>,
      <<"iq","C","u","a1","l"," ","e","s"," ","l","a"," ","t","a","s","a"," ","d","e"," ","r","e","n","o","v","a","c","i","o1","n"," ","p","a","r","a"," ","{concepto}","?">> >>,
   fr |-> <<
      <<"C","o","m","b","i","e","n"," ","c","o","u3","t","e"," ","{concepto}","?">>,
      <<"Q","u","e","l"," ","e","s","t"," ","l","e"," ","p","r","i","x"," ","d","e"," ","{concepto}","?">>,
      <<"C","o","m","b","i","e","n"," ","d","o","i","s","-","j","e"," ","p","a","y","e","r"," ","p","o","u","r"," ","{concepto}","?">>,
      <<"Q","u","e","l"," ","e","s","t"," ","l","e"," ","m","o","n","t","a","n","t"," ","d","e"," ","l","a"," ","t","a","x","e"," ","p","o","u","r"," ","{concepto}","?">>,
      <<"Q","u","e","l","s"," ","d","o","c","u","m","e","n","t","s"," ","s","o","n","t"," ","n","e1","c","e","s","s","a","i","r","e","s"," ","p","o","u","r"," ","{concepto}","?">>,
      <<"Q","u","e","l","s"," ","d","o","c","u","m","e","n","t","s"," ","s","o","n","t"," ","r","e","q","u","i","s"," ","p","o","u","r"," ","{concepto}","?">>,
      <<"Q","u","e","l","l","e"," ","d","o","c","u","m","e","n","t","a","t","i","o","n"," ","d","o","i","s","-","j","e"," ","p","r","e1","s","e","n","t","e","r"," ","p","o","u","r"," ","{concepto}","?">>,
      <<"Q","u","e","l","l","e","s"," ","s","o","n","t"," ","l","e","s"," ","c","o","n","d","i","t","i","o","n","s"," ","r","e","q","u","i","s","e","s"," ","p","o","u","r"," ","{concepto}","?">>,
      <<"Q","u","e","l","l","e"," ","e","s","t"," ","l","a"," ","p","r","o","c","e1","d","u","r","e"," ","p","o","u","r"," ","{concepto}","?">>,
      <<"C","o","m","m","e","n","t"," ","p","u","i","s","-","j","e"," ","o","b","t","e","n","i","r"," ","{concepto}","?">>,
      <<"Q","u","e","l"," ","e","s","t"," ","l","e"," ","p","r","o","c","e","s","s","u","s"," ","p","o","u","r"," ","{concepto}","?">>,
      <<"O","u2"," ","p","u","i","s","-","j","e"," ","f","a","i","r","e"," ","l","a"," ","d","e","m","a","n","d","e"," ","d","e"," ","{concepto}","?">>,
      <<"A2"," ","q","u","e","l"," ","m","i","n","i","s","t","e2","r","e"," ","a","p","p","a","r","t","i","e","n","t"," ","{concepto}","?">>,
      <<"Q","u","e","l"," ","m","i","n","i","s","t","e2","r","e"," ","e","s","t"," ","e","n"," ","c","h","a","r","g","e"," ","d","e"," ","{concepto}","?">>,
      <<"Q","u","e","l"," ","d","e1","p","a","r","t","e","m","e","n","t"," ","g","e2","r","e"," ","{concepto}","?">>,
      <<"J","'","a","i"," ","b","e","s","o","i","n"," ","d","'","i","n","f","o","r","m","a","t","i","o","n","s"," ","s","u","r"," ","{concepto}">>,
      <<"P","a","r","l","e","z","-","m","o","i"," ","d","e"," ","{concepto}">>,
      <<"E","x","p","l","i","q","u","e","z","-","m","o","i"," ","{concepto}">>,
      <<"C","o","m","b","i","e","n"," ","c","o","u3","t","e"," ","l","e"," ","r","e","n","o","u","v","e","l","l","e","m","e","n","t"," ","d","e"," ","{concepto}","?">>,
      <<"Q","u","e","l"," ","e","s","t"," ","l","e"," ","c","o","u3","t"," ","d","e"," ","r","e","n","o","u","v","e","l","l","e","m","e","n","t"," ","d","e"," ","{concepto}","?">>,
      <<"Q","u","e","l"," ","e","s","t"," ","l","e"," ","m","o","n","t","a","n","t"," ","p","o","u","r"," ","r","e","n","o","u","v","e","l","e","r"," ","{concepto}","?">> >>,
   en |-> <<
      <<"H","o","w"," ","m","u","c","h"," ","d","o","e","s"," ","{concepto}"," ","c","o","s","t","?">>,
      <<"W","h","a","t"," ","i","s"," ","t","h","e"," ","p","r","i","c","e"," ","o","f"," ","{concepto}","?">>,
      <<"H","o","w"," ","m","u","c","h"," ","d","o"," ","I"," ","h","a","v","e"," ","t","o"," ","p","a","y"," ","f","o","r"," ","{concepto}","?">>,
      <<"W","h","a","t"," ","i","s"," ","t","h","e"," ","f","e","e"," ","f","o","r"," ","{concepto}","?">>,
      <<"W","h","a","t"," ","d","o","c","u","m","e","n","t","s"," ","d","o"," ","I"," ","n","e","e","d"," ","f","o","r"," ","{concepto}","?">>,
      <<"W","h","a","t"," ","d","o","c","u","m","e","n","t","s"," ","a","r","e"," ","r","e","q","u","i","r","e","d"," ","f","o","r"," ","{concepto}","?">>,
      <<"W","h","a","t"," ","d","o","c","u","m","e","n","t","a","t","i","o","n"," ","s","h","o","u","l","d"," ","I"," ","s","u","b","m","i","t"," ","f","o","r"," ","{concepto}","?">>,
      <<"W","h","a","t"," ","a","r","e"," ","t","h","e"," ","r","e","q","u","i","r","e","m","e","n","t","s"," ","f","o","r"," ","{concepto}","?">>,
      <<"W","h","a","t"," ","i","s"," ","t","h","e"," ","p","r","o","c","e","d","u","r","e"," ","f","o","r"," ","{concepto}","?">>,
      <<"H","o","w"," ","c","a","n"," ","I"," ","o","b","t","a","i","n"," ","{concepto}","?">>,
      <<"W","h","a","t"," ","i","s"," ","t","h","e"," ","p","r","o","c","e","s","s"," ","f","o","r"," ","{concepto}","?">>,
      <<"W","h","e","r","e"," ","c","a","n"," ","I"," ","a","p","p","l","y"," ","f","o","r"," ","{concepto}","?">>,
      <<"W","h","i","c","h"," ","m","i","n","i","s","t","r","y"," ","h","a","n","d","l","e","s"," ","{concepto}","?">>,
      <<"W","h","i","c","h"," ","m","i","n","i","s","t","r","y"," ","i","s"," ","i","n"," ","c","h","a","r","g","e"," ","o","f"," ","{concepto}","?">>,
      <<"W","h","i","c","h"," ","d","e","p","a","r","t","m","e","n","t"," ","m","a","n","a","g","e","s"," ","{concepto}","?">>,
      <<"I"," ","n","e","e","d"," ","i","n","f","o","r","m","a","t","i","o","n"," ","a","b","o","u","t"," ","{concepto}">>,
      <<"T","e","l","l"," ","m","e"," ","a","b","o","u","t"," ","{concepto}">>,
      <<"E","x","p","l","a","i","n"," ","{concepto}"," ","t","o"," ","m","e">>,
      <<"H","o","w"," ","m","u","c","h"," ","d","o","e","s"," ","i","t"," ","c","o","s","t"," ","t","o"," ","r","e","n","e","w"," ","{concepto}","?">>,
      <<"W","h","a","t"," ","i","s"," ","t","h","e"," ","r","e","n","e","w","a","l"," ","c","o","s","t"," ","f","o","r"," ","{concepto}","?">>,
      <<"W","h","a","t"," ","i","s"," ","t","h","e"," ","r","e","n","e","w","a","l"," ","f","e","e"," ","f","o","r"," ","{concepto}","?">> >> ]

GENERAL_QUESTION_TEMPLATES ==
  [
   es |-> <<
      <<"iq","Q","u","e1"," ","t","r","a1","m","i","t","e","s"," ","p","u","e","d","o"," ","h","a","c","e","r"," ","e","n"," ","e","l"," ","M","i","n","i","s","t","e","r","i","o"," ","d","e"," ","{ministerio}","?">>,
      <<"iq","Q","u","e1"," ","s","e","r","v","i","c","i","o","s"," ","o","f","r","e","c","e"," ","e","l"," ","M","i","n","i","s","t","e","r","i","o"," ","d","e"," ","{ministerio}","?">>,
      <<"iq","C","u","a1","l","e","s"," ","s","o","n"," ","l","a","s"," ","t","a","s","a","s"," ","d","e","l"," ","M","i","n","i","s","t","e","r","i","o"," ","d","e"," ","{ministerio}","?">>,
      <<"iq","Q","u","e1"," ","d","o","c","u","m","e","n","t","o","s"," ","e","m","i","t","e"," ","e","l"," ","M","i","n","i","s","t","e","r","i","o"," ","d","e"," ","{ministerio}","?">>,
      <<"iq","C","o1","m","o"," ","c","o","n","t","a","c","t","a","r"," ","a","l"," ","M","i","n","i","s","t","e","r","i","o"," ","d","e"," ","{ministerio}","?">>,
      <<"iq","Q","u","e1"," ","c","a","t","e","g","o","r","i1","a","s"," ","d","e"," ","t","a","s","a","s"," ","e","x","i","s","t","e","n"," ","e","n"," ","{ministerio}","?">> >>,
   fr |-> <<
      <<"Q","u","e","l","l","e","s"," ","d","e1","m","a","r","c","h","e","s"," ","p","u","i","s","-","j","e"," ","f","a","i","r","e"," ","a","u"," ","M","i","n","i","s","t","e2","r","e"," ","d","e"," ","{ministerio}","?">>,
      <<"Q","u","e","l","s"," ","s","e","r","v","i","c","e","s"," ","p","r","o","p","o","s","e"," ","l","e"," ","M","i","n","i","s","t","e2","r","e"," ","d","e"," ","{ministerio}","?">>,
      <<"Q","u","e","l","l","e","s"," ","s","o","n","t"," ","l","e","s"," ","t","a","x","e","s"," ","d","u"," ","M","i","n","i","s","t","e2","r","e"," ","d","e"," ","{ministerio}","?">>,
      <<"Q","u","e","l","s"," ","d","o","c","u","m","e","n","t","s"," ","s","o","n","t"," ","e1","m","i","s"," ","p","a","r"," ","l","e"," ","M","i","n","i","s","t","e2","r","e"," ","d","e"," ","{ministerio}","?">>,
      <<"C","o","m","m","e","n","t"," ","c","o","n","t","a","c","t","e","r"," ","l","e"," ","M","i","n","i","s","t","e2","r","e"," ","d","e"," ","{ministerio}","?">>,
      <<"Q","u","e","l","l","e","s"," ","c","a","t","e1","g","o","r","i","e","s"," ","d","e"," ","t","a","x","e","s"," ","e","x","i","s","t","e","n","t"," ","a","u"," ","{ministerio}","?">> >>,
   en |-> <<
      <<"W","h","a","t"," ","p","r","o","c","e","d","u","r","e","s"," ","c","a","n"," ","I"," ","d","o"," ","a","t"," ","t","h","e"," ","M","i","n","i","s","t","r","y"," ","o","f"," ","{ministerio}","?">>,
      <<"W","h","a","t"," ","s","e","r","v","i","c","e","s"," ","d","o","e","s"," ","t","h","e"," ","M","i","n","i","s","t","r","y"," ","o","f"," ","{ministerio}"," ","o","f","f","e","r","?">>,
      <<"W","h","a","t"," ","a","r","e"," ","t","h","e"," ","f","e","e","s"," ","a","t"," ","t","h","e"," ","M","i","n","i","s","t","r","y"," ","o","f"," ","{ministerio}","?">>,
      <<"W","h","a","t"," ","d","o","c","u","m","e","n","t","s"," ","a","r","e"," ","i","s","s","u","e","d"," ","b","y"," ","t","h","e"," ","M","i","n","i","s","t","r","y"," ","o","f"," ","{ministerio}","?">>,
      <<"H","o","w"," ","c","a","n"," ","I"," ","c","o","n","t","a","c","t"," ","t","h","e"," ","M","i","n","i","s","t","r","y"," ","o","f"," ","{ministerio}","?">>,
      <<"W","h","a","t"," ","c","a","t","e","g","o","r","i","e","s"," ","o","f"," ","f","e","e","s"," ","e","x","i","s","t"," ","i","n"," ","{ministerio}","?">> >> ]

KEYWORD_QUESTION_TEMPLATES ==
  [
   es |-> <<
      <<"iq","D","o1","n","d","e"," ","p","u","e","d","o"," ","o","b","t","e","n","e","r"," ","d","o","c","u","m","e","n","t","o","s"," ","r","e","l","a","c","i","o","n","a","d","o","s"," ","c","o","n"," ","{palabra_clave}","?">>,
      <<"iq","Q","u","e1"," ","t","r","a1","m","i","t","e","s"," ","e","x","i","s","t","e","n"," ","p","a","r","a"," ","{palabra_clave}","?">>,
      <<"B","u","s","c","o"," ","i","n","f","o","r","m","a","c","i","o1","n"," ","s","o","b","r","e"," ","{palabra_clave}">>,
      <<"iq","Q","u","e1"," ","t","a","s","a","s"," ","e","s","t","a1","n"," ","r","e","l","a","c","i","o","n","a","d","a","s"," ","c","o","n"," ","{palabra_clave}","?">>,
      <<"N","e","c","e","s","i","t","o"," ","h","a","c","e","r"," ","u","n"," ","t","r","a1","m","i","t","e"," ","d","e"," ","{palabra_clave}">> >>,
   fr |-> <<
      <<"O","u2"," ","p","u","i","s","-","j","e"," ","o","b","t","e","n","i","r"," ","d","e","s"," ","d","o","c","u","m","e","n","t","s"," ","l","i","e1","s"," ","a2"," ","{palabra_clave}","?">>,
      <<"Q","u","e","l","l","e","s"," ","p","r","o","c","e1","d","u","r","e","s"," ","e","x","i","s","t","e","n","t"," ","p","o","u","r"," ","{palabra_clave}","?">>,
      <<"J","e"," ","c","h","e","r","c","h","e"," ","d","e","s"," ","i","n","f","o","r","m","a","t","i","o","n","s"," ","s","u","r"," ","{palabra_clave}">>,
      <<"Q","u","e","l","l","e","s"," ","t","a","x","e","s"," ","s","o","n","t"," ","l","i","e1","e","s"," ","a2"," ","{palabra_clave}","?">>,
      <<"J","'","a","i"," ","b","e","s","o","i","n"," ","d","e"," ","f","a","i","r","e"," ","u","n","e"," ","d","e1","m","a","r","c","h","e"," ","c","o","n","c","e","r","n","a","n","t"," ","{palabra_clave}">> >>,
   en |-> <<
      <<"W","h","e","r","e"," ","c","a","n"," ","I"," ","g","e","t"," ","d","o","c","u","m","e","n","t","s"," ","r","e","l","a","t","e","d"," ","t","o"," ","{palabra_clave}","?">>,
      <<"W","h","a","t"," ","p","r","o","c","e","d","u","r","e","s"," ","e","x","i","s","t"," ","f","o","r"," ","{palabra_clave}","?">>,
      <<"I","'","m"," ","l","o","o","k","i","n","g"," ","f","o","r"," ","i","n","f","o","r","m","a","t","i","o","n"," ","a","b","o","u","t"," ","{palabra_clave}">>,
      <<"W","h","a","t"," ","f","e","e","s"," ","a","r","e"," ","r","e","l","a","t","e","d"," ","t","o"," ","{palabra_clave}","?">>,
      <<"I"," ","n","e","e","d"," ","t","o"," ","d","o"," ","a"," ","p","r","o","c","e","d","u","r","e"," ","r","e","l","a","t","e","d"," ","t","o"," ","{palabra_clave}">> >> ]

RESPONSE_TEMPLATES ==
  [
   precio |-> [es |-> <<"E","l"," ","c","o","s","t","o"," ","d","e"," ","{concepto}"," ","e","s"," ","{tasa_expedicion}"," ","p","a","r","a"," ","e","x","p","e","d","i","c","i","o1","n"," ","y"," ","{tasa_renovacion}"," ","p","a","r","a"," ","r","e","n","o","v","a","c","i","o1","n",".">>,
        fr |-> <<"L","e"," ","c","o","u3","t"," ","d","e"," ","{concepto}"," ","e","s","t"," ","d","e"," ","{tasa_expedicion}"," ","p","o","u","r"," ","l","'","e1","m","i","s","s","i","o","n"," ","e","t"," ","{tasa_renovacion}"," ","p","o","u","r"," ","l","e"," ","r","e","n","o","u","v","e","l","l","e","m","e","n","t",".">>,
        en |-> <<"T","h","e"," ","c","o","s","t"," ","o","f"," ","{concepto}"," ","i","s"," ","{tasa_expedicion}"," ","f","o","r"," ","i","s","s","u","a","n","c","e"," ","a","n","d"," ","{tasa_renovacion}"," ","f","o","r"," ","r","e","n","e","w","a","l",".">>],
   documentos |-> [es |-> <<"L","o","s"," ","d","o","c","u","m","e","n","t","o","s"," ","r","e","q","u","e","r","i","d","o","s"," ","p","a","r","a"," ","{concepto}"," ","s","o","n",":"," ","{documentos_requeridos}">>,
        fr |-> <<"L","e","s"," ","d","o","c","u","m","e","n","t","s"," ","r","e","q","u","i","s"," ","p","o","u","r"," ","{concepto}"," ","s","o","n","t",":"," ","{documentos_requeridos}">>,
        en |-> <<"T","h","e"," ","r","e","q","u","i","r","e","d"," ","d","o","c","u","m","e","n","t","s"," ","f","o","r"," ","{concepto}"," ","a","r","e",":"," ","{documentos_requeridos}">>],
   procedimiento |-> [es |-> <<"E","l"," ","p","r","o","c","e","d","i","m","i","e","n","t","o"," ","p","a","r","a"," ","{concepto}"," ","e","s",":"," ","{procedimiento}">>,
        fr |-> <<"L","a"," ","p","r","o","c","e1","d","u","r","e"," ","p","o","u","r"," ","{concepto}"," ","e","s","t",":"," ","{procedimiento}">>,
        en |-> <<"T","h","e"," ","p","r","o","c","e","d","u","r","e"," ","f","o","r"," ","{concepto}"," ","i","s",":"," ","{procedimiento}">>],
   ministerio |-> [es |-> <<"{concepto}"," ","e","s"," ","g","e","s","t","i","o","n","a","d","o"," ","p","o","r"," ","e","l"," ","M","i","n","i","s","t","e","r","i","o"," ","d","e"," ","{ministerio}",".">>,
        fr |-> <<"{concepto}"," ","e","s","t"," ","g","e1","r","e1"," ","p","a","r"," ","l","e"," ","M","i","n","i","s","t","e2","r","e"," ","d","e"," ","{ministerio}",".">>,
        en |-> <<"{concepto}"," ","i","s"," ","m","a","n","a","g","e","d"," ","b","y"," ","t","h","e"," ","M","i","n","i","s","t","r","y"," ","o","f"," ","{ministerio}",".">>],
   informacion_general |-> [es |-> <<"{concepto}"," ","e","s"," ","u","n"," ","t","r","a1","m","i","t","e"," ","d","e","l"," ","M","i","n","i","s","t","e","r","i","o"," ","d","e"," ","{ministerio}","."," ","E","l"," ","c","o","s","t","o"," ","e","s"," ","{tasa_expedicion}"," ","p","a","r","a"," ","e","x","p","e","d","i","c","i","o1","n"," ","y"," ","{tasa_renovacion}"," ","p","a","r","a"," ","r","e","n","o","v","a","c","i","o1","n",".">>,
        fr |-> <<"{concepto}"," ","e","s","t"," ","u","n","e"," ","d","e1","m","a","r","c","h","e"," ","d","u"," ","M","i","n","i","s","t","e2","r","e"," ","d","e"," ","{ministerio}","."," ","L","e"," ","c","o","u3","t"," ","e","s","t"," ","d","e"," ","{tasa_expedicion}"," ","p","o","u","r"," ","l","'","e1","m","i","s","s","i","o","n"," ","e","t"," ","{tasa_renovacion}"," ","p","o","u","r"," ","l","e"," ","r","e","n","o","u","v","e","l","l","e","m","e","n","t",".">>,
        en |-> <<"{concepto}"," ","i","s"," ","a"," ","p","r","o","c","e","d","u","r","e"," ","o","f"," ","t","h","e"," ","M","i","n","i","s","t","r","y"," ","o","f"," ","{ministerio}","."," ","T","h","e"," ","c","o","s","t"," ","i","s"," ","{tasa_expedicion}"," ","f","o","r"," ","i","s","s","u","a","n","c","e"," ","a","n","d"," ","{tasa_renovacion}"," ","f","o","r"," ","r","e","n","e","w","a","l",".">>],
   ministerio_general |-> [es |-> <<"E","l"," ","M","i","n","i","s","t","e","r","i","o"," ","d","e"," ","{ministerio}"," ","g","e","s","t","i","o","n","a"," ","v","a","r","i","o","s"," ","t","r","a1","m","i","t","e","s",","," ","e","n","t","r","e"," ","e","l","l","o","s",":"," ","{conceptos}",".">>,
        fr |-> <<"L","e"," ","M","i","n","i","s","t","e2","r","e"," ","d","e"," ","{ministerio}"," ","g","e2","r","e"," ","p","l","u","s","i","e","u","r","s"," ","d","e1","m","a","r","c","h","e","s",","," ","n","o","t","a","m","m","e","n","t",":"," ","{conceptos}",".">>,
        en |-> <<"T","h","e"," ","M","i","n","i","s","t","r","y"," ","o","f"," ","{ministerio}"," ","m","a","n","a","g","e","s"," ","s","e","v","e","r","a","l"," ","p","r","o","c","e","d","u","r","e","s",","," ","i","n","c","l","u","d","i","n","g",":"," ","{conceptos}",".">>],
   keyword |-> [es |-> <<"P","a","r","a"," ","t","r","a1","m","i","t","e","s"," ","r","e","l","a","c","i","o","n","a","d","o","s"," ","c","o","n"," ","{palabra_clave}",","," ","p","u","e","d","e"," ","c","o","n","s","u","l","t","a","r",":"," ","{conceptos}",".">>,
        fr |-> <<"P","o","u","r"," ","l","e","s"," ","d","e1","m","a","r","c","h","e","s"," ","l","i","e1","e","s"," ","a2"," ","{palabra_clave}",","," ","v","o","u","s"," ","p","o","u","v","e","z"," ","c","o","n","s","u","l","t","e","r",":"," ","{conceptos}",".">>,
        en |-> <<"F","o","r"," ","p","r","o","c","e","d","u","r","e","s"," ","r","e","l","a","t","e","d"," ","t","o"," ","{palabra_clave}",","," ","y","o","u"," ","c","a","n"," ","c","h","e","c","k",":"," ","{conceptos}",".">>] ]

FALLBACK_RESPONSES ==
  [
   es |-> <<
      <<"N","o"," ","t","e","n","g","o"," ","i","n","f","o","r","m","a","c","i","o1","n"," ","e","s","p","e","c","i1","f","i","c","a"," ","s","o","b","r","e"," ","{concepto}","."," ","P","o","r"," ","f","a","v","o","r",","," ","c","o","n","s","u","l","t","e"," ","d","i","r","e","c","t","a","m","e","n","t","e"," ","c","o","n"," ","e","l"," ","m","i","n","i","s","t","e","r","i","o"," ","c","o","r","r","e","s","p","o","n","d","i","e","n","t","e",".">>,
      <<"L","o"," ","s","i","e","n","t","o",","," ","n","o"," ","p","u","e","d","o"," ","p","r","o","p","o","r","c","i","o","n","a","r"," ","i","n","f","o","r","m","a","c","i","o1","n"," ","d","e","t","a","l","l","a","d","a"," ","s","o","b","r","e"," ","{concepto}",".">>,
      <<"N","o"," ","d","i","s","p","o","n","g","o"," ","d","e"," ","d","a","t","o","s"," ","s","o","b","r","e"," ","{concepto}","."," ","R","e","c","o","m","i","e","n","d","o"," ","c","o","n","s","u","l","t","a","r"," ","e","n"," ","l","a"," ","p","a1","g","i","n","a"," ","w","e","b"," ","o","f","i","c","i","a","l"," ","d","e","l"," ","g","o","b","i","e","r","n","o",".">> >>,
   fr |-> <<
      <<"J","e"," ","n","'","a","i"," ","p","a","s"," ","d","'","i","n","f","o","r","m","a","t","i","o","n","s"," ","s","p","e1","c","i","f","i","q","u","e","s"," ","s","u","r"," ","{concepto}","."," ","V","e","u","i","l","l","e","z"," ","c","o","n","s","u","l","t","e","r"," ","d","i","r","e","c","t","e","m","e","n","t"," ","l","e"," ","m","i","n","i","s","t","e2","r","e"," ","c","o","n","c","e","r","n","e1",".">>,
      <<"D","e1","s","o","l","e1",","," ","j","e"," ","n","e"," ","p","e","u","x"," ","p","a","s"," ","f","o","u","r","n","i","r"," ","d","'","i","n","f","o","r","m","a","t","i","o","n","s"," ","d","e1","t","a","i","l","l","e1","e","s"," ","s","u","r"," ","{concepto}",".">>,
      <<"J","e"," ","n","e"," ","d","i","s","p","o","s","e"," ","p","a","s"," ","d","e"," ","d","o","n","n","e1","e","s"," ","s","u","r"," ","{concepto}","."," ","J","e"," ","r","e","c","o","m","m","a","n","d","e"," ","d","e"," ","c","o","n","s","u","l","t","e","r"," ","l","e"," ","s","i","t","e"," ","w","e","b"," ","o","f","f","i","c","i","e","l"," ","d","u"," ","g","o","u","v","e","r","n","e","m","e","n","t",".">> >>,
   en |-> <<
      <<"I"," ","d","o","n","'","t"," ","h","a","v","e"," ","s","p","e","c","i","f","i","c"," ","i","n","f","o","r","m","a","t","i","o","n"," ","a","b","o","u","t"," ","{concepto}","."," ","P","l","e","a","s","e"," ","c","o","n","s","u","l","t"," ","d","i","r","e","c","t","l","y"," ","w","i","t","h"," ","t","h","e"," ","c","o","r","r","e","s","p","o","n","d","i","n","g"," ","m","i","n","i","s","t","r","y",".">>,
      <<"S","o","r","r","y",","," ","I"," ","c","a","n","n","o","t"," ","p","r","o","v","i","d","e"," ","d","e","t","a","i","l","e","d"," ","i","n","f","o","r","m","a","t","i","o","n"," ","a","b","o","u","t"," ","{concepto}",".">>,
      <<"I"," ","d","o","n","'","t"," ","h","a","v","e"," ","d","a","t","a"," ","a","b","o","u","t"," ","{concepto}","."," ","I"," ","r","e","c","o","m","m","e","n","d"," ","c","h","e","c","k","i","n","g"," ","t","h","e"," ","o","f","f","i","c","i","a","l"," ","g","o","v","e","r","n","m","e","n","t"," ","w","e","b","s","i","t","e",".">> >> ]

GREETING_TEMPLATES ==
  [
   es |-> <<
      <<"H","o","l","a">>,
      <<"B","u","e","n","o","s"," ","d","i1","a","s">>,
      <<"B","u","e","n","a","s"," ","t","a","r","d","e","s">>,
      <<"B","u","e","n","a","s"," ","n","o","c","h","e","s">>,
      <<"S","a","l","u","d","o","s">> >>,
   fr |-> <<
      <<"B","o","n","j","o","u","r">>,
      <<"S","a","l","u","t">>,
      <<"B","o","n","s","o","i","r">>,
      <<"C","o","u","c","o","u">>,
      <<"S","a","l","u","t","a","t","i","o","n","s">> >>,
   en |-> <<
      <<"H","e","l","l","o">>,
      <<"H","i">>,
      <<"G","o","o","d"," ","m","o","r","n","i","n","g">>,
      <<"G","o","o","d"," ","a","f","t","e","r","n","o","o","n">>,
      <<"G","o","o","d"," ","e","v","e","n","i","n","g">>,
      <<"G","r","e","e","t","i","n","g","s">> >> ]

THANKS_TEMPLATES ==
  [
   es |-> <<
      <<"G","r","a","c","i","a","s">>,
      <<"M","u","c","h","a","s"," ","g","r","a","c","i","a","s">>,
      <<"T","e"," ","a","g","r","a","d","e","z","c","o">>,
      <<"G","r","a","c","i","a","s"," ","p","o","r"," ","l","a"," ","i","n","f","o","r","m","a","c","i","o1","n">>,
      <<"E","x","c","e","l","e","n","t","e",","," ","g","r","a","c","i","a","s">> >>,
   fr |-> <<
      <<"M","e","r","c","i">>,
      <<"M","e","r","c","i"," ","b","e","a","u","c","o","u","p">>,
      <<"J","e"," ","v","o","u","s"," ","r","e","m","e","r","c","i","e">>,
      <<"M","e","r","c","i"," ","p","o","u","r"," ","l","'","i","n","f","o","r","m","a","t","i","o","n">>,
      <<"E","x","c","e","l","l","e","n","t",","," ","m","e","r","c","i">> >>,
   en |-> <<
      <<"T","h","a","n","k","s">>,
      <<"T","h","a","n","k"," ","y","o","u">>,
      <<"T","h","a","n","k"," ","y","o","u"," ","v","e","r","y"," ","m","u","c","h">>,
      <<"T","h","a","n","k","s"," ","f","o","r"," ","t","h","e"," ","i","n","f","o","r","m","a","t","i","o","n">>,
      <<"G","r","e","a","t",","," ","t","h","a","n","k","s">> >> ]

GREETING_RESPONSES ==
  [
   es |-> <<
      <<"H","o","l","a",","," ","iq","e","n"," ","q","u","e1"," ","p","u","e","d","o"," ","a","y","u","d","a","r","t","e","?">>,
      <<"B","u","e","n","o","s"," ","d","i1","a","s",","," ","iq","q","u","e1"," ","i","n","f","o","r","m","a","c","i","o1","n"," ","s","o","b","r","e"," ","t","a","s","a","s"," ","f","i","s","c","a","l","e","s"," ","n","e","c","e","s","i","t","a","s","?">>,
      <<"H","o","l","a",","," ","s","o","y"," ","e","l"," ","a","s","i","s","t","e","n","t","e"," ","v","i","r","t","u","a","l"," ","d","e"," ","T","a","x","a","s","G","E","."," ","iq","C","o1","m","o"," ","p","u","e","d","o"," ","a","y","u","d","a","r","t","e","?">>,
      <<"S","a","l","u","d","o","s",","," ","e","s","t","o","y"," ","a","q","u","i1"," ","p","a","r","a"," ","r","e","s","p","o","n","d","e","r"," ","t","u","s"," ","p","r","e","g","u","n","t","a","s"," ","s","o","b","r","e"," ","t","a","s","a","s"," ","f","i","s","c","a","l","e","s"," ","e","n"," ","G","u","i","n","e","a"," ","E","c","u","a","t","o","r","i","a","l",".">> >>,
   fr |-> <<
      <<"B","o","n","j","o","u","r",","," ","c","o","m","m","e","n","t"," ","p","u","i","s","-","j","e"," ","v","o","u","s"," ","a","i","d","e","r","?">>,
      <<"B","o","n","j","o","u","r",","," ","q","u","e","l","l","e"," ","i","n","f","o","r","m","a","t","i","o","n"," ","s","u","r"," ","l","e","s"," ","t","a","x","e","s"," ","f","i","s","c","a","l","e","s"," ","v","o","u","s"," ","f","a","u","t","-","i","l","?">>,
      <<"B","o","n","j","o","u","r",","," ","j","e"," ","s","u","i","s"," ","l","'","a","s","s","i","s","t","a","n","t"," ","v","i","r","t","u","e","l"," ","d","e"," ","T","a","x","a","s","G","E","."," ","C","o","m","m","e","n","t"," ","p","u","i","s","-","j","e"," ","v","o","u","s"," ","a","i","d","e","r","?">>,
      <<"S","a","l","u","t","a","t","i","o","n","s",","," ","j","e"," ","s","u","i","s"," ","l","a2"," ","p","o","u","r"," ","r","e1","p","o","n","d","r","e"," ","a2"," ","v","o","s"," ","q","u","e","s","t","i","o","n","s"," ","s","u","r"," ","l","e","s"," ","t","a","x","e","s"," ","f","i","s","c","a","l","e","s"," ","e","n"," ","G","u","i","n","e1","e"," ","E1","q","u","a","t","o","r","i","a","l","e",".">> >>,
   en |-> <<
      <<"H","e","l","l","o",","," ","h","o","w"," ","c","a","n"," ","I"," ","h","e","l","p"," ","y","o","u","?">>,
      <<"G","o","o","d"," ","d","a","y",","," ","w","h","a","t"," ","i","n","f","o","r","m","a","t","i","o","n"," ","a","b","o","u","t"," ","f","i","s","c","a","l"," ","t","a","x","e","s"," ","d","o"," ","y","o","u"," ","n","e","e","d","?">>,
      <<"H","i",","," ","I","'","m"," ","t","h","e"," ","T","a","x","a","s","G","E"," ","v","i","r","t","u","a","l"," ","a","s","s","i","s","t","a","n","t","."," ","H","o","w"," ","c","a","n"," ","I"," ","h","e","l","p"," ","y","o","u","?">>,
      <<"G","r","e","e","t","i","n","g","s",","," ","I","'","m"," ","h","e","r","e"," ","t","o"," ","a","n","s","w","e","r"," ","y","o","u","r"," ","q","u","e","s","t","i","o","n","s"," ","a","b","o","u","t"," ","f","i","s","c","a","l"," ","t","a","x","e","s"," ","i","n"," ","E","q","u","a","t","o","r","i","a","l"," ","G","u","i","n","e","a",".">> >> ]

THANKS_RESPONSES ==
  [
   es |-> <<
      <<"D","e"," ","n","a","d","a",","," ","e","s","t","o","y"," ","a","q","u","i1"," ","p","a","r","a"," ","a","y","u","d","a","r",".">>,
      <<"U","n"," ","p","l","a","c","e","r","."," ","iq","N","e","c","e","s","i","t","a","s"," ","a","l","g","o"," ","m","a1","s","?">>,
      <<"N","o"," ","h","a","y"," ","p","r","o","b","l","e","m","a","."," ","iq","P","u","e","d","o"," ","a","y","u","d","a","r","t","e"," ","c","o","n"," ","a","l","g","o"," ","m","a1","s","?">>,
      <<"A"," ","t","u"," ","s","e","r","v","i","c","i","o","."," ","iq","H","a","y"," ","a","l","g","o"," ","m","a1","s"," ","e","n"," ","l","o"," ","q","u","e"," ","p","u","e","d","a"," ","a","s","i","s","t","i","r","t","e","?">> >>,
   fr |-> <<
      <<"D","e"," ","r","i","e","n",","," ","j","e"," ","s","u","i","s"," ","l","a2"," ","p","o","u","r"," ","a","i","d","e","r",".">>,
      <<"A","v","e","c"," ","p","l","a","i","s","i","r","."," ","A","v","e","z","-","v","o","u","s"," ","b","e","s","o","i","n"," ","d","'","a","u","t","r","e"," ","c","h","o","s","e","?">>,
      <<"P","a","s"," ","d","e"," ","p","r","o","b","l","e2","m","e","."," ","P","u","i","s","-","j","e"," ","v","o","u","s"," ","a","i","d","e","r"," ","a","v","e","c"," ","a","u","t","r","e"," ","c","h","o","s","e","?">>,
      <<"A2"," ","v","o","t","r","e"," ","s","e","r","v","i","c","e","."," ","Y"," ","a","-","t","-","i","l"," ","a","u","t","r","e"," ","c","h","o","s","e"," ","d","o","n","t"," ","v","o","u","s"," ","a","v","e","z"," ","b","e","s","o","i","n","?">> >>,
   en |-> <<
      <<"Y","o","u","'","r","e"," ","w","e","l","c","o","m","e",","," ","I","'","m"," ","h","e","r","e"," ","t","o"," ","h","e","l","p",".">>,
      <<"M","y"," ","p","l","e","a","s","u","r","e","."," ","D","o"," ","y","o","u"," ","n","e","e","d"," ","a","n","y","t","h","i","n","g"," ","e","l","s","e","?">>,
      <<"N","o"," ","p","r","o","b","l","e","m","."," ","C","a","n"," ","I"," ","h","e","l","p"," ","y","o","u"," ","w","i","t","h"," ","s","o","m","e","t","h","i","n","g"," ","e","l","s","e","?">>,
      <<"A","t"," ","y","o","u","r"," ","s","e","r","v","i","c","e","."," ","I","s"," ","t","h","e","r","e"," ","a","n","y","t","h","i","n","g"," ","e","l","s","e"," ","I"," ","c","a","n"," ","a","s","s","i","s","t"," ","y","o","u"," ","w","i","t","h","?">> >> ]

GE_LOCALISMS ==
  [
   es |-> <<
      <<"d","o","c","u","m","e","n","t","o">>,
      <<"p","a","p","e","l">>,
      <<"c","a","r","n","e","t">>,
      <<"c","e1","d","u","l","a">>,
      <<"r","e","c","i","b","o">>,
      <<"c","o","m","p","r","o","b","a","n","t","e">>,
      <<"p","a","g","a","r">>,
      <<"a","b","o","n","a","r">>,
      <<"c","o","t","i","z","a","r">>,
      <<"p","l","a","t","a">>,
      <<"e","f","e","c","t","i","v","o">>,
      <<"a","y","u","d","a">>,
      <<"d","a","t","o">>,
      <<"i","n","f","o">>,
      <<"c","o","n","s","u","l","t","a">> >>,
   fr |-> <<
      <<"p","a","p","i","e","r">>,
      <<"c","a","r","t","e">>,
      <<"f","a","c","t","u","r","e">>,
      <<"r","e","c5","u">>,
      <<"p","a","y","e","r">>,
      <<"r","e1","g","l","e","r">>,
      <<"c","o","t","i","s","e","r">>,
      <<"f","r","i","c">>,
      <<"a","r","g","e","n","t">>,
      <<"c","a","s","h">>,
      <<"a","i","d","e">>,
      <<"r","e","n","s","e","i","g","n","e","m","e","n","t">>,
      <<"i","n","f","o">> >>,
   en |-> <<
      <<"p","a","p","e","r">>,
      <<"c","a","r","d">>,
      <<"b","i","l","l">>,
      <<"r","e","c","e","i","p","t">>,
      <<"p","a","y">>,
      <<"s","e","t","t","l","e">>,
      <<"f","e","e">>,
      <<"m","o","n","e","y">>,
      <<"c","a","s","h">>,
      <<"h","e","l","p">>,
      <<"i","n","f","o">> >> ]

\* ------------------------------------------------------------ random source
Raw == 0..(RawMod - 1)

\* the draw at position pos of the stream d
At(d, pos) == d[(pos % Len(d)) + 1]

\* index picked by random.choice / random.randint among n values: floor(u*n)
Below(u, n) == (u * n) \div RawMod

\* random.random() < p, p a probability [n |-> numerator, d |-> denominator]
Less(u, p) == u * p.d < p.n * RawMod

\* random.random() > 0.5
AboveHalf(u) == u * 2 > RawMod

\* statements run in order: the value a statement leaves, with its stream
\* position, is computed when the next statement starts
Computed(acc) == acc.pos >= 0

\* self.augmentation_prob
DefaultProb == [n |-> AugmentationProb, d |-> ProbScale]

\* p / k
ProbOver(p, k) == [n |-> p.n, d |-> p.d * k]

\* -------------------------------------------------------- augment_question
prefixes ==
  [es |-> << <<"iq","C","u","a1","l"," ","e","s">>, <<"iq","C","u","a1","n","t","o">>, <<"iq","Q","u","e1">>,
             <<"iq","C","o1","m","o">>, <<"iq","D","o1","n","d","e">>, <<"iq","A"," ","q","u","e1">> >>,
   fr |-> << <<"Q","u","e","l"," ","e","s","t">>, <<"C","o","m","b","i","e","n">>, <<"C","o","m","m","e","n","t">>,
             <<"Q","u","e","l","s"," ","s","o","n","t">>, <<"O","u2">>, <<"A2"," ","q","u","e","l">> >>,
   en |-> << <<"W","h","a","t"," ","i","s">>, <<"H","o","w"," ","m","u","c","h">>, <<"H","o","w">>,
             <<"W","h","a","t"," ","a","r","e">>, <<"W","h","e","r","e">>, <<"W","h","i","c","h">> >>]

articles ==
  [es |-> << <<"e","l"," ">>, <<"l","a"," ">>, <<"l","o","s"," ">>, <<"l","a","s"," ">> >>,
   fr |-> << <<"l","e"," ">>, <<"l","a"," ">>, <<"l","e","s"," ">>, <<"l","'">> >>,
   en |-> << <<"t","h","e"," ">> >>]

accents ==
  ("a1" :> "a" @@ "e1" :> "e" @@ "i1" :> "i" @@ "o1" :> "o" @@ "u1" :> "u" @@
   "a2" :> "a" @@ "e2" :> "e" @@ "i2" :> "i" @@ "o2" :> "o" @@ "u2" :> "u" @@
   "a3" :> "a" @@ "e3" :> "e" @@ "i3" :> "i" @@ "o3" :> "o" @@ "u3" :> "u" @@
   "a4" :> "a" @@ "e4" :> "e" @@ "i4" :> "i" @@ "o4" :> "o" @@ "u4" :> "u" @@
   "n5" :> "n" @@ "c5" :> "c")

ErrorTypes == <<"replace", "swap", "omit", "double">>

\* "abcdefghijklmnopqrstuvwxyz"
TypoLetters == SubSeq(LowerCaseLetters, 1, 26)

StartsWithAny(s, ps) == \E k \in 1..Len(ps) : StartsWith(s, ps[k])

\* the article branch after a prefix was cut
StripArticle(q, language) ==
  IF ~StartsWithAny(q, articles[language]) THEN q
  ELSE IF language = "es" THEN Strip(Drop(q, 3))
  ELSE IF language = "fr"
       THEN IF ~StartsWith(q, <<"l","'">>) THEN Strip(Drop(q, 3)) ELSE Strip(Drop(q, 2))
  ELSE Strip(Drop(q, 4))

\* 1. the first matching prefix is cut, then a leading article
StripPrefix(q, language) ==
  LET ps == prefixes[language] IN
  IF ~StartsWithAny(q, ps) THEN q
  ELSE LET k == CHOOSE k \in 1..Len(ps) :
                  StartsWith(q, ps[k]) /\ \A j \in 1..(k-1) : ~StartsWith(q, ps[j])
       IN  StripArticle(Strip(Drop(q, Len(ps[k]))), language)

AugPrefix(q, language, p, d, pos) ==
  IF Less(At(d, pos), p)
  THEN [q |-> StripPrefix(q, language), pos |-> pos + 1]
  ELSE [q |-> q, pos |-> pos + 1]

\* chars[index] = letter
ReplaceAt(chars, index, letter) == [chars EXCEPT ![index + 1] = letter]

\* chars[index], chars[index+1] = chars[index+1], chars[index]
SwapAt(chars, index) ==
  [chars EXCEPT ![index + 1] = chars[index + 2], ![index + 2] = chars[index + 1]]

\* chars.pop(index)
OmitAt(chars, index) == Take(chars, index) \o Drop(chars, index + 1)

\* chars.insert(index, chars[index])
DoubleAt(chars, index) == Take(chars, index) \o <<chars[index + 1]>> \o Drop(chars, index)

\* 2. one typing error
AugTypo(q, language, p, d, pos) ==
  IF ~Less(At(d, pos), p) \/ ~(Len(q) > 3) THEN [q |-> q, pos |-> pos + 1]
  ELSE LET error_type == ErrorTypes[Below(At(d, pos + 1), Len(ErrorTypes)) + 1]
           u == At(d, pos + 2)
       IN  IF error_type = "replace" /\ Len(q) > 0
           THEN [q |-> ReplaceAt(q, Below(u, Len(q)),
                                 TypoLetters[Below(At(d, pos + 3), Len(TypoLetters)) + 1]),
                 pos |-> pos + 4]
           ELSE IF error_type = "swap" /\ Len(q) > 2
           THEN [q |-> SwapAt(q, Below(u, Len(q) - 1)), pos |-> pos + 3]
           ELSE IF error_type = "omit" /\ Len(q) > 3
           THEN [q |-> OmitAt(q, Below(u, Len(q))), pos |-> pos + 3]
           ELSE IF error_type = "double" /\ Len(q) > 1
           THEN [q |-> DoubleAt(q, Below(u, Len(q))), pos |-> pos + 3]
           ELSE [q |-> q, pos |-> pos + 2]

\* question.replace(accent, replace) for every entry of accents
StripAccents(q) == [i \in 1..Len(q) |-> IF q[i] \in DOMAIN accents THEN accents[q[i]] ELSE q[i]]

\* 3. accents removed, Spanish and French only
AugAccents(q, language, p, d, pos) ==
  IF Less(At(d, pos), p) /\ (language = "es" \/ language = "fr")
  THEN [q |-> StripAccents(q), pos |-> pos + 1]
  ELSE [q |-> q, pos |-> pos + 1]

\* the opening mark in Spanish and a final "?" or "." are cut
StripPunctuation(q, language) ==
  LET q1 == IF language = "es" /\ StartsWith(q, <<"iq">>) THEN Drop(q, 1) ELSE q
  IN  IF EndsWith(q1, "?") \/ EndsWith(q1, ".") THEN Take(q1, Len(q1) - 1) ELSE q1

\* 4. final punctuation removed
AugPunctuation(q, language, p, d, pos) ==
  IF Less(At(d, pos), p)
  THEN [q |-> StripPunctuation(q, language), pos |-> pos + 1]
  ELSE [q |-> q, pos |-> pos + 1]

\* 5. the first two or the last two words are kept
AugShorten(q, language, p, d, pos) ==
  IF ~Less(At(d, pos), ProbOver(p, 2)) THEN [q |-> q, pos |-> pos + 1]
  ELSE LET words == Words(q) IN
       IF ~(Len(words) > 2) THEN [q |-> q, pos |-> pos + 1]
       ELSE IF Less(At(d, pos + 1), [n |-> 1, d |-> 2])
            THEN [q |-> Join(Take(words, 2), <<" ">>), pos |-> pos + 2]
            ELSE [q |-> Join(Drop(words, Len(words) - 2), <<" ">>), pos |-> pos + 2]

\* 6. one word replaced by a local expression
AugLocalism(q, language, p, d, pos) ==
  IF ~(Less(At(d, pos), ProbOver(p, 3)) /\ language \in DOMAIN GE_LOCALISMS)
  THEN [q |-> q, pos |-> pos + 1]
  ELSE LET words == Words(q) IN
       IF ~(Len(words) > 2) THEN [q |-> q, pos |-> pos + 1]
       ELSE LET index == Below(At(d, pos + 1), Len(words))
                local == GE_LOCALISMS[language][Below(At(d, pos + 2), Len(GE_LOCALISMS[language])) + 1]
            IN  [q |-> Join([words EXCEPT ![index + 1] = local], <<" ">>), pos |-> pos + 3]

\* the return without the length test
AugReturn_AnyLength(question, original) ==
  IF question # original
  THEN IF question # <<>> /\ IsAlpha(question[1])
       THEN <<UpperChar(question[1])>> \o Tail(question)
       ELSE question
  ELSE original

\* the mutated question is kept only when it differs and is longer than 3
AugReturn(question, original) ==
  IF question # original /\ Len(question) > 3
  THEN IF question # <<>> /\ IsAlpha(question[1])
       THEN <<UpperChar(question[1])>> \o Tail(question)
       ELSE question
  ELSE original

\* one stage on the question and stream position the previous stage left
Stage(Op(_, _, _, _, _), s, language, p, d) ==
  IF Computed(s) THEN Op(s.q, language, p, d, s.pos) ELSE s

\* the final test on what the stages left
AugEnd(s, original) == [q |-> AugReturn(s.q, original), pos |-> s.pos]

\* the six stages in source order, then the final test
AugStages(question, language, p, d, pos) ==
  AugEnd(Stage(AugLocalism,
             Stage(AugShorten,
               Stage(AugPunctuation,
                 Stage(AugAccents,
                   Stage(AugTypo,
                     Stage(AugPrefix, [q |-> question, pos |-> pos], language, p, d),
                     language, p, d),
                   language, p, d),
                 language, p, d),
               language, p, d),
             language, p, d),
         question)

\* augment_question(question, language, augmentation_prob) reading the
\* stream d from position pos; gives the returned string and the new position
augment_question(enabled, question, language, p, d, pos) ==
  IF ~enabled THEN [q |-> question, pos |-> pos]
  ELSE IF AboveHalf(At(d, pos)) THEN [q |-> question, pos |-> pos + 1]
  ELSE AugStages(question, language, p, d, pos + 1)

\* ------------------------------------------------------------------ helpers
_capitalize_first_letter(text) ==
  IF text = <<>> THEN text ELSE <<UpperChar(text[1])>> \o Tail(text)

Conjunction(lang) ==
  IF lang = "es" THEN <<" ","y"," ">>
  ELSE IF lang = "fr" THEN <<" ","e","t"," ">>
  ELSE <<" ","a","n","d"," ">>

_format_list(items, lang) ==
  IF items = <<>> THEN <<>>
  ELSE Join(Take(items, Len(items) - 1), <<",", " ">>)
       \o (IF Len(items) > 1 THEN Conjunction(lang) \o items[Len(items)] ELSE items[1])

\* -------------------------------------------------------------- JSON values
Str(s) == [t |-> "str", v |-> s]
List(items) == [t |-> "list", v |-> items]
Dict(f) == [t |-> "dict", v |-> f]

IsDict(x) == x.t = "dict"

\* node.get(key, default)
Get(node, key, default) == IF key \in DOMAIN node.v THEN node.v[key] ELSE default

\* the list stored under key, [] when the key is absent
Children(node, key) == Get(node, key, List(<<>>)).v

\* f"{field}_{lang}"
SuffixKey ==
  [nombre |-> [es |-> "nombre_es", fr |-> "nombre_fr", en |-> "nombre_en"],
   documentos_requeridos |-> [es |-> "documentos_requeridos_es", fr |-> "documentos_requeridos_fr",
                              en |-> "documentos_requeridos_en"],
   procedimiento |-> [es |-> "procedimiento_es", fr |-> "procedimiento_fr", en |-> "procedimiento_en"]]

\* the language code as text
LangText == [es |-> <<"e","s">>, fr |-> <<"f","r">>, en |-> <<"e","n">>]

\* str(i) for i >= 0
RECURSIVE Digits(_)
Digits(i) ==
  LET digit == <<"0","1","2","3","4","5","6","7","8","9">>[(i % 10) + 1]
  IN  IF i < 10 THEN <<digit>> ELSE Digits(i \div 10) \o <<digit>>

\* --------------------------------------------------------- record normalizer
\* the per-language view of a field: the mapping itself, or the plain value
\* under "es" plus every <field>_<lang> key found on the record
LocalizedView(node, field, languages) ==
  LET raw == Get(node, field, Str(<<>>)) IN
  IF IsDict(raw) THEN [l \in DOMAIN raw.v |-> raw.v[l].v]
  ELSE LET found == {l \in Range(languages) : SuffixKey[field][l] \in DOMAIN node.v}
       IN  [l \in {"es"} \cup found |->
              IF l \in found THEN node.v[SuffixKey[field][l]].v ELSE raw.v]

\* Resolve without the default-language step: view.get(lang, fallback)
Resolve_NoSpanish(view, lang, fallback) ==
  IF lang \in DOMAIN view THEN view[lang] ELSE fallback

\* the chain with the default language tried before lang
Resolve_DefaultFirst(view, lang, fallback) ==
  IF "es" \in DOMAIN view THEN view["es"]
  ELSE IF lang \in DOMAIN view THEN view[lang]
  ELSE fallback

\* view.get(lang, view.get("es", fallback))
Resolve(view, lang, fallback) ==
  IF lang \in DOMAIN view THEN view[lang]
  ELSE IF "es" \in DOMAIN view THEN view["es"]
  ELSE fallback

\* the texts of a JSON list of strings
Texts(items) == [i \in 1..Len(items) |-> items[i].v]

\* palabras_clave of the record as a per-language view of keyword lists
KeywordView(concepto, languages) ==
  LET raw == Get(concepto, "palabras_clave", Str(<<>>))
      palabras_clave == IF raw.t = "str" THEN SplitOn(raw.v, ",") ELSE <<>>
  IN  IF IsDict(raw) THEN raw.v
      ELSE [l \in {l \in Range(languages) : palabras_clave # <<>>} |-> List([i \in 1..Len(palabras_clave) |-> Str(palabras_clave[i])])]

\* the keyword list used for lang: a list as it is, a string split and trimmed
Keywords(view, lang) ==
  LET kw == Resolve(view, lang, List(<<>>)) IN
  IF kw.t = "str"
  THEN LET parts == SplitOn(kw.v, ",") IN [i \in 1..Len(parts) |-> Strip(parts[i])]
  ELSE Texts(kw.v)

\* ----------------------------------------------------------------- examples
\* the running result of a call: examples appended so far, the statistics
\* counters and the position in the random stream
EmitOriginal(acc, example) ==
  [acc EXCEPT !.examples = Append(@, example),
              !.stats.languages[example.language] = @ + 1,
              !.stats.total_examples = @ + 1]

\* EmitAugmented without the total counter
EmitAugmented_NoTotal(acc, example) ==
  [acc EXCEPT !.examples = Append(@, example),
              !.stats.augmented_examples = @ + 1,
              !.stats.languages[example.language] = @ + 1]

\* EmitAugmented without the counter of augmented examples
EmitAugmented_NoAugmented(acc, example) ==
  [acc EXCEPT !.examples = Append(@, example),
              !.stats.languages[example.language] = @ + 1,
              !.stats.total_examples = @ + 1]

\* EmitAugmented without the per-language counter
EmitAugmented_NoLanguage(acc, example) ==
  [acc EXCEPT !.examples = Append(@, example),
              !.stats.augmented_examples = @ + 1,
              !.stats.total_examples = @ + 1]

EmitAugmented(acc, example) ==
  [acc EXCEPT !.examples = Append(@, example),
              !.stats.augmented_examples = @ + 1,
              !.stats.languages[example.language] = @ + 1,
              !.stats.total_examples = @ + 1]

\* the augmented variant emitted without comparing the two questions
EmitVariant_Always(acc, a, example, id_prefix) ==
  EmitAugmented([acc EXCEPT !.pos = a.pos],
                [example EXCEPT !.id = id_prefix \o <<"_","a","u","g">>,
                                !.question = a.q,
                                !.metadata.augmented = TRUE])

\* the augmented variant, emitted when augment_question returned a
\* different question a.q
EmitVariant(acc, a, example, id_prefix) ==
  IF a.q # example.question
  THEN EmitAugmented([acc EXCEPT !.pos = a.pos],
                     [example EXCEPT !.id = id_prefix \o <<"_","a","u","g">>,
                                     !.question = a.q,
                                     !.metadata.augmented = TRUE])
  ELSE [acc EXCEPT !.pos = a.pos]

\* the original example as a dictionary without the "augmented" key
Original_NoFlag(example, id_prefix) ==
  [example EXCEPT !.id = id_prefix \o <<"_","o","r","i","g">>,
                  !.metadata = [k \in (DOMAIN @) \ {"augmented"} |-> @[k]]]

\* the example with the id and the mark of an original
Original(example, id_prefix) ==
  [example EXCEPT !.id = id_prefix \o <<"_","o","r","i","g">>, !.metadata.augmented = FALSE]

\* the original example, then its augmented variant when augmentation is
\* enabled
EmitPair(acc, cfg, example, id_prefix, p) ==
  IF ~cfg.augmentation_enabled THEN EmitOriginal(acc, Original(example, id_prefix))
  ELSE EmitVariant(EmitOriginal(acc, Original(example, id_prefix)),
                   augment_question(cfg.augmentation_enabled, example.question,
                                    example.language, p, cfg.d, acc.pos),
                   example, id_prefix)
\* ----------------------------------------------------------- concept path
PriceKeywords ==
  << <<"c","u","e","s","t","a">>, <<"p","r","e","c","i","o">>, <<"p","a","g","a","r">>, <<"t","a","s","a">>,
     <<"c","o","u3","t">>, <<"c","o","s","t">>, <<"p","a","y">>, <<"f","e","e">> >>

DocumentKeywords ==
  << <<"d","o","c","u","m","e","n","t","o">>, <<"r","e","q","u","i","s","i","t","o">>,
     <<"d","o","c","u","m","e","n","t">>, <<"r","e","q","u","i","r","e","m","e","n","t">> >>

ProcedureKeywords ==
  << <<"p","r","o","c","e","d","i","m","i","e","n","t","o">>, <<"o","b","t","e","n","e","r">>,
     <<"p","r","o","c","e","s","o">>, <<"p","r","o","c","e1","d","u","r","e">>, <<"o","b","t","e","n","i","r">>,
     <<"p","r","o","c","e","d","u","r","e">>, <<"p","r","o","c","e","s","s">> >>

MinistryKeywords ==
  << <<"m","i","n","i","s","t","e","r","i","o">>, <<"d","e","p","a","r","t","a","m","e","n","t","o">>,
     <<"m","i","n","i","s","t","e2","r","e">>, <<"m","i","n","i","s","t","r","y">>,
     <<"d","e","p","a","r","t","m","e","n","t">> >>

\* the chain with the ministry test ahead of the price test
ResponseCategory_MinistryFirst(question_template) ==
  LET t == Lower(question_template) IN
  IF ContainsAny(t, MinistryKeywords) THEN "ministerio"
  ELSE IF ContainsAny(t, PriceKeywords) THEN "precio"
  ELSE "informacion_general"

\* the if/elif chain of _process_concepto over the lower-cased template
ResponseCategory(question_template) ==
  LET t == Lower(question_template) IN
  IF ContainsAny(t, PriceKeywords) THEN "precio"
  ELSE IF ContainsAny(t, MinistryKeywords) THEN "ministerio"
  ELSE "informacion_general"

\* the if/elif chain of the second definition of _process_concepto
ResponseCategory2(question_template) ==
  LET t == Lower(question_template) IN
  IF ContainsAny(t, PriceKeywords) THEN "precio"
  ELSE IF ContainsAny(t, DocumentKeywords) THEN "documentos"
  ELSE IF ContainsAny(t, ProcedureKeywords) THEN "procedimiento"
  ELSE IF ContainsAny(t, MinistryKeywords) THEN "ministerio"
  ELSE "informacion_general"

\* the fields a concept answer may use, r the resolved record of the language
ConceptFields(r) ==
  ("{concepto}" :> r.nombre @@ "{ministerio}" :> r.ministerio_traducido @@
   "{tasa_expedicion}" :> r.tasa_expedicion @@ "{tasa_renovacion}" :> r.tasa_renovacion)

\* response_template.format(...) of the chosen category
ConceptResponse(question_template, lang, r) ==
  Format(RESPONSE_TEMPLATES[ResponseCategory(question_template)][lang], ConceptFields(r))

\* the fields an answer of the second definition may use
ConceptFields2(r) ==
  ConceptFields(r) @@ ("{documentos_requeridos}" :> r.docs @@ "{procedimiento}" :> r.proc)

\* random.choice(FALLBACK_RESPONSES[lang]).format(concepto=nombre), u the draw
Fallback(lang, r, u) ==
  Format(FALLBACK_RESPONSES[lang][Below(u, Len(FALLBACK_RESPONSES[lang])) + 1],
         "{concepto}" :> r.nombre)

\* the answer of the second definition of _process_concepto: the documents
\* and procedure branches fall back when "if docs" / "if proc" fails
ConceptResponse2(question_template, lang, r, u) ==
  IF ResponseCategory2(question_template) = "documentos" /\ r.docs = <<>> THEN Fallback(lang, r, u)
  ELSE IF ResponseCategory2(question_template) = "procedimiento" /\ r.proc = <<>>
  THEN Fallback(lang, r, u)
  ELSE Format(RESPONSE_TEMPLATES[ResponseCategory2(question_template)][lang], ConceptFields2(r))

ConceptMetadata(r) ==
  [ministry |-> r.ministerio_traducido, query_type |-> "concepto", augmented |-> FALSE]

\* the turn with the index in the id counted from 1
ConceptExample_OneBased(acc, cfg, r, lang, i) ==
  LET templates == QUESTION_TEMPLATES[lang]
      question_template == templates[Below(At(cfg.d, acc.pos), Len(templates)) + 1]
      question == Format(question_template, "{concepto}" :> r.nombre)
      response == ConceptResponse(question_template, lang, r)
      example == [id |-> <<>>, language |-> lang, concept_id |-> r.concepto_id,
                  question |-> _capitalize_first_letter(question),
                  answer |-> _capitalize_first_letter(response),
                  metadata |-> ConceptMetadata(r)]
  IN  EmitPair([acc EXCEPT !.pos = @ + 1], cfg, example,
               r.concepto_id \o <<"_">> \o LangText[lang] \o <<"_">> \o Digits(i + 1), DefaultProb)

\* one turn of the loop "for i in range(self.num_examples_per_concept)"
ConceptExample(acc, cfg, r, lang, i) ==
  LET templates == QUESTION_TEMPLATES[lang]
      question_template == templates[Below(At(cfg.d, acc.pos), Len(templates)) + 1]
      question == Format(question_template, "{concepto}" :> r.nombre)
      response == ConceptResponse(question_template, lang, r)
      example == [id |-> <<>>, language |-> lang, concept_id |-> r.concepto_id,
                  question |-> _capitalize_first_letter(question),
                  answer |-> _capitalize_first_letter(response),
                  metadata |-> ConceptMetadata(r)]
  IN  EmitPair([acc EXCEPT !.pos = @ + 1], cfg, example,
               r.concepto_id \o <<"_">> \o LangText[lang] \o <<"_">> \o Digits(i), DefaultProb)

RECURSIVE ConceptExamples(_, _, _, _, _)
ConceptExamples(acc, cfg, r, lang, i) ==
  IF ~Computed(acc) \/ i >= cfg.num_examples_per_concept THEN acc
  ELSE ConceptExamples(ConceptExample(acc, cfg, r, lang, i), cfg, r, lang, i + 1)

\* the turn without the test for a blank keyword
KeywordExample_KeepBlank(acc, cfg, r, lang, keywords) ==
  LET keyword == keywords[Below(At(cfg.d, acc.pos), Len(keywords)) + 1]
      templates == KEYWORD_QUESTION_TEMPLATES[lang]
      template == templates[Below(At(cfg.d, acc.pos + 1), Len(templates)) + 1]
      question == Format(template, "{palabra_clave}" :> Strip(keyword))
      response == Format(RESPONSE_TEMPLATES.keyword[lang],
                         "{palabra_clave}" :> Strip(keyword) @@ "{conceptos}" :> r.nombre)
      example == [id |-> <<>>, language |-> lang, concept_id |-> r.concepto_id,
                  question |-> _capitalize_first_letter(question),
                  answer |-> _capitalize_first_letter(response),
                  metadata |-> [ministry |-> r.ministerio_traducido, query_type |-> "keyword",
                                keyword |-> keyword, augmented |-> FALSE]]
  IN  EmitPair([acc EXCEPT !.pos = @ + 2], cfg, example,
               r.concepto_id \o <<"_">> \o LangText[lang] \o <<"_","k","w","_">>
                 \o Digits(IndexOf(keywords, keyword) - 1), DefaultProb)

\* one turn of the loop "for _ in range(min(2, len(keywords)))"
KeywordExample(acc, cfg, r, lang, keywords) ==
  LET keyword == keywords[Below(At(cfg.d, acc.pos), Len(keywords)) + 1] IN
  IF Strip(keyword) = <<>> THEN [acc EXCEPT !.pos = @ + 1]
  ELSE LET templates == KEYWORD_QUESTION_TEMPLATES[lang]
           template == templates[Below(At(cfg.d, acc.pos + 1), Len(templates)) + 1]
           question == Format(template, "{palabra_clave}" :> Strip(keyword))
           response == Format(RESPONSE_TEMPLATES.keyword[lang],
                              "{palabra_clave}" :> Strip(keyword) @@ "{conceptos}" :> r.nombre)
           example == [id |-> <<>>, language |-> lang, concept_id |-> r.concepto_id,
                       question |-> _capitalize_first_letter(question),
                       answer |-> _capitalize_first_letter(response),
                       metadata |-> [ministry |-> r.ministerio_traducido, query_type |-> "keyword",
                                     keyword |-> keyword, augmented |-> FALSE]]
       IN  EmitPair([acc EXCEPT !.pos = @ + 2], cfg, example,
                    r.concepto_id \o <<"_">> \o LangText[lang] \o <<"_","k","w","_">>
                      \o Digits(IndexOf(keywords, keyword) - 1), DefaultProb)

RECURSIVE KeywordExamples(_, _, _, _, _, _)
KeywordExamples(acc, cfg, r, lang, keywords, turns) ==
  IF ~Computed(acc) \/ turns = 0 THEN acc
  ELSE KeywordExamples(KeywordExample(acc, cfg, r, lang, keywords), cfg, r, lang, keywords, turns - 1)

Min(a, b) == IF a < b THEN a ELSE b

\* the name resolution with an empty last resort instead of the concept id
ConceptName_NoIdFallback(concepto, lang, languages) ==
  Resolve(LocalizedView(concepto, "nombre", languages), lang, <<>>)

\* nombre = concepto_nombres.get(lang, concepto_nombres.get("es", concepto_id))
ConceptName(concepto, lang, languages) ==
  Resolve(LocalizedView(concepto, "nombre", languages), lang, Get(concepto, "id", Str(<<>>)).v)

\* what the loop body resolves for lang before it builds examples: the name,
\* the fees, docs and proc, and the ministry name handed in by the caller
ConceptRecord(concepto, ministerio_nombre, lang, languages) ==
  [concepto_id |-> Get(concepto, "id", Str(<<>>)).v,
   nombre |-> ConceptName(concepto, lang, languages),
   tasa_expedicion |-> Get(concepto, "tasa_expedicion", Str(<<"N","/","A">>)).v,
   tasa_renovacion |-> Get(concepto, "tasa_renovacion", Str(<<"N","/","A">>)).v,
   docs |-> Resolve(LocalizedView(concepto, "documentos_requeridos", languages), lang, <<>>),
   proc |-> Resolve(LocalizedView(concepto, "procedimiento", languages), lang, <<>>),
   ministerio_traducido |-> ministerio_nombre]

\* the body of "for lang in languages" of _process_concepto
ConceptLanguage(acc, cfg, concepto, ministerio_nombre, lang, languages) ==
  IF ConceptName(concepto, lang, languages) = <<>> THEN acc
  ELSE LET r == ConceptRecord(concepto, ministerio_nombre, lang, languages)
           keywords == Keywords(KeywordView(concepto, languages), lang)
       IN  KeywordExamples(ConceptExamples(acc, cfg, r, lang, 0), cfg, r, lang, keywords,
                           Min(2, Len(keywords)))

RECURSIVE ConceptLanguages(_, _, _, _, _, _)
ConceptLanguages(acc, cfg, concepto, ministerio_nombre, k, languages) ==
  IF ~Computed(acc) \/ k > Len(languages) THEN acc
  ELSE ConceptLanguages(ConceptLanguage(acc, cfg, concepto, ministerio_nombre, languages[k], languages),
                        cfg, concepto, ministerio_nombre, k + 1, languages)

\* _process_concepto(concepto, ministerio_nombre): acc with the examples of
\* the concept appended to acc.examples
_process_concepto(acc, cfg, concepto, ministerio_nombre) ==
  ConceptLanguages(acc, cfg, concepto, ministerio_nombre, 1, Languages)

\* ----------------------------------------------------------- ministry path
\* the concept nodes below a ministry, in sector/category/sub-category order
RECURSIVE Flatten(_)
Flatten(lists) == IF lists = <<>> THEN <<>> ELSE lists[1] \o Flatten(Tail(lists))

\* the nodes one level below each node of nodes, under key
Below1(nodes, key) == Flatten([i \in 1..Len(nodes) |-> Children(nodes[i], key)])

Sectores(ministerio) == Children(ministerio, "sectores")
Categorias(ministerio) == Below1(SelectSeq(Sectores(ministerio), IsDict), "categorias")
SubCategorias(ministerio) == Below1(SelectSeq(Categorias(ministerio), IsDict), "sub_categorias")
Conceptos(ministerio) == Below1(SelectSeq(SubCategorias(ministerio), IsDict), "conceptos")

\* some node below the ministry is not a mapping: its .get raises AttributeError
Malformed(ministerio) ==
  \/ \E i \in 1..Len(Sectores(ministerio)) : ~IsDict(Sectores(ministerio)[i])
  \/ \E i \in 1..Len(Categorias(ministerio)) : ~IsDict(Categorias(ministerio)[i])
  \/ \E i \in 1..Len(SubCategorias(ministerio)) : ~IsDict(SubCategorias(ministerio)[i])
  \/ \E i \in 1..Len(Conceptos(ministerio)) : ~IsDict(Conceptos(ministerio)[i])

\* all_concepts: the name view of every concept below the ministry
AllConcepts(ministerio, languages) ==
  LET cs == Conceptos(ministerio)
  IN  [i \in 1..Len(cs) |-> LocalizedView(cs[i], "nombre", languages)]

\* if name and name not in concept_names: concept_names.append(name)
RECURSIVE AppendNames(_, _, _)
AppendNames(concept_names, all_concepts, lang) ==
  IF all_concepts = <<>> THEN concept_names
  ELSE LET name == Resolve(all_concepts[1], lang, <<>>)
       IN  AppendNames(IF name # <<>> /\ name \notin Range(concept_names)
                       THEN Append(concept_names, name) ELSE concept_names,
                       Tail(all_concepts), lang)

\* the list with every non-empty resolved name appended, repeated or not
ConceptNames_NoDedup(ministerio, lang, languages) ==
  LET all_concepts == AllConcepts(ministerio, languages)
      names == [i \in 1..Len(all_concepts) |-> Resolve(all_concepts[i], lang, <<>>)]
  IN  SelectSeq(names, LAMBDA name : name # <<>>)

\* concept_names of the ministry for lang
ConceptNames(ministerio, lang, languages) ==
  AppendNames(<<>>, AllConcepts(ministerio, languages), lang)

\* k picks with replacement
Sample_WithReplacement(pool, k, d, pos) ==
  [i \in 1..k |-> pool[Below(At(d, pos + i - 1), Len(pool)) + 1]]

\* random.sample(population, k): k picks without replacement, the picked
\* slot refilled with the last unpicked element
RECURSIVE Sample(_, _, _, _)
Sample(pool, k, d, pos) ==
  IF k = 0 THEN <<>>
  ELSE LET n == Len(pool)
           j == Below(At(d, pos), n) + 1
       IN  <<pool[j]>> \o Sample(Take([pool EXCEPT ![j] = pool[n]], n - 1), k - 1, d, pos + 1)

\* one turn of "for i, template in enumerate(templates[:2])"
MinistryExample(acc, cfg, ministerio_id, nombre_lang, concepts_formatted, lang, i) ==
  LET template == GENERAL_QUESTION_TEMPLATES[lang][i + 1]
      question == Format(template, "{ministerio}" :> nombre_lang)
      response == Format(RESPONSE_TEMPLATES.ministerio_general[lang],
                         "{ministerio}" :> nombre_lang @@ "{conceptos}" :> concepts_formatted)
      example == [id |-> <<>>, language |-> lang, concept_id |-> ministerio_id,
                  question |-> _capitalize_first_letter(question),
                  answer |-> _capitalize_first_letter(response),
                  metadata |-> [ministry |-> nombre_lang, query_type |-> "ministerio_general",
                                augmented |-> FALSE]]
  IN  EmitPair(acc, cfg, example,
               ministerio_id \o <<"_">> \o LangText[lang] \o <<"_","g","e","n","e","r","a","l","_">> \o Digits(i),
               DefaultProb)

RECURSIVE MinistryExamples(_, _, _, _, _, _, _)
MinistryExamples(acc, cfg, ministerio_id, nombre_lang, concepts_formatted, lang, i) ==
  IF ~Computed(acc) \/ i >= Min(2, Len(GENERAL_QUESTION_TEMPLATES[lang])) THEN acc
  ELSE MinistryExamples(MinistryExample(acc, cfg, ministerio_id, nombre_lang, concepts_formatted, lang, i),
                        cfg, ministerio_id, nombre_lang, concepts_formatted, lang, i + 1)

\* ministerio_nombre_lang = ministerio_nombres.get(lang, ministerio_nombres.get("es", ministerio_id))
MinistryName(ministerio, lang, languages) ==
  Resolve(LocalizedView(ministerio, "nombre", languages), lang, Get(ministerio, "id", Str(<<>>)).v)

\* the body of "for lang in languages" of _process_ministerio
MinistryLanguage(acc, cfg, ministerio, lang, languages) ==
  LET ministerio_id == Get(ministerio, "id", Str(<<>>)).v
      nombre_lang == MinistryName(ministerio, lang, languages)
      concept_names == ConceptNames(ministerio, lang, languages)
  IN  IF concept_names = <<>> THEN acc
      ELSE LET k == Min(5, Len(concept_names))
               sample_concepts == Sample(concept_names, k, cfg.d, acc.pos)
           IN  MinistryExamples([acc EXCEPT !.pos = @ + k], cfg, ministerio_id, nombre_lang,
                                _format_list(sample_concepts, lang), lang, 0)

RECURSIVE MinistryLanguages(_, _, _, _, _)
MinistryLanguages(acc, cfg, ministerio, k, languages) ==
  IF ~Computed(acc) \/ k > Len(languages) THEN acc
  ELSE MinistryLanguages(MinistryLanguage(acc, cfg, ministerio, languages[k], languages),
                         cfg, ministerio, k + 1, languages)

\* _process_ministerio(ministerio) on a ministry whose nodes are all mappings
_process_ministerio(acc, cfg, ministerio) ==
  MinistryLanguages(acc, cfg, ministerio, 1, Languages)

\* ----------------------------------------------------------- greeting path
KindText == [greeting |-> <<"g","r","e","e","t","i","n","g">>, thanks |-> <<"t","h","a","n","k","s">>]

\* one greeting or thanks phrase: a response is drawn, then the pair is
\* emitted with half the augmentation probability
PhraseExample(acc, cfg, kind, phrase, responses, lang, i) ==
  LET response == responses[Below(At(cfg.d, acc.pos), Len(responses)) + 1]
      example == [id |-> <<>>, language |-> lang, concept_id |-> KindText[kind],
                  question |-> phrase, answer |-> response,
                  metadata |-> [query_type |-> kind, augmented |-> FALSE]]
  IN  EmitPair([acc EXCEPT !.pos = @ + 1], cfg, example,
               KindText[kind] \o <<"_">> \o LangText[lang] \o <<"_">> \o Digits(i), ProbOver(DefaultProb, 2))

RECURSIVE PhraseExamples(_, _, _, _, _, _, _)
PhraseExamples(acc, cfg, kind, phrases, responses, lang, i) ==
  IF ~Computed(acc) \/ i >= Len(phrases) THEN acc
  ELSE PhraseExamples(PhraseExample(acc, cfg, kind, phrases[i + 1], responses, lang, i),
                      cfg, kind, phrases, responses, lang, i + 1)


\* the body of "for lang in languages": the greetings, then the thanks
GreetingLanguage(acc, cfg, lang) ==
  PhraseExamples(PhraseExamples(acc, cfg, "greeting", GREETING_TEMPLATES[lang],
                                GREETING_RESPONSES[lang], lang, 0),
                 cfg, "thanks", THANKS_TEMPLATES[lang], THANKS_RESPONSES[lang], lang, 0)

RECURSIVE GreetingLanguages(_, _, _, _)
GreetingLanguages(acc, cfg, k, languages) ==
  IF ~Computed(acc) \/ k > Len(languages) THEN acc
  ELSE GreetingLanguages(GreetingLanguage(acc, cfg, languages[k]), cfg, k + 1, languages)

\* _generate_greeting_examples()
_generate_greeting_examples(acc, cfg) == GreetingLanguages(acc, cfg, 1, Languages)

\* ------------------------------------------------------------ input documents
\* the JSON files tried as input: well-formed hierarchies in both name shapes,
\* both container shapes, malformed nodes, an empty list and an unreadable file
Hierarchy(conceptos) ==
  List(<< Dict("id" :> Str(<<"S","1">>) @@ "categorias" :>
      List(<< Dict("id" :> Str(<<"C","1">>) @@ "sub_categorias" :>
          List(<< Dict("id" :> Str(<<"U","1">>) @@ "conceptos" :> List(conceptos)) >>)) >>)) >>)

\* legacy shape: plain name, fees, documents, comma-separated keywords
ConceptLegacy ==
  Dict("id" :> Str(<<"T","1">>) @@ "nombre" :> Str(<<"V","i","s","a">>) @@
       "tasa_expedicion" :> Str(<<"5","0">>) @@ "tasa_renovacion" :> Str(<<"3","0">>) @@
       "documentos_requeridos" :> Str(<<"D","N","I">>) @@
       "palabras_clave" :> Str(<<"v","i","s","a",","," ","p","a","s","e">>))

\* per-language name without "en", per-language keywords with a duplicate
ConceptMulti ==
  Dict("id" :> Str(<<"T","2">>) @@
       "nombre" :> Dict("es" :> Str(<<"P","a","s","e">>) @@ "fr" :> Str(<<"P","e","r","m","i","s">>)) @@
       "tasa_expedicion" :> Str(<<"7","5">>) @@
       "procedimiento" :> Dict("es" :> Str(<<"I","r">>)) @@
       "palabras_clave" :> Dict("es" :> List(<< Str(<<"p","a","s","e">>), Str(<<"p","a","s","e">>) >>) @@
                                "fr" :> Str(<<"p","e","r","m","i","s",",">>)))

\* name given in French only: neither "es" nor "en"
ConceptFrOnly ==
  Dict("id" :> Str(<<"T","3">>) @@ "nombre" :> Dict("fr" :> Str(<<"P","e","r","m","i","s">>)))

\* plain name with an English suffix key
ConceptSuffix ==
  Dict("id" :> Str(<<"T","4">>) @@ "nombre" :> Str(<<"V","i","s","a">>) @@
       "nombre_en" :> Str(<<"P","e","r","m","i","t">>))

\* empty plain name: no language resolves
ConceptNoName == Dict("id" :> Str(<<"T","5">>) @@ "nombre" :> Str(<<>>))

\* French name only and no id: Spanish and English resolve to the empty id
ConceptUntranslated ==
  Dict("nombre" :> Dict("fr" :> Str(<<"C","a","r","t","e">>)))

MinistryPlain ==
  Dict("id" :> Str(<<"M","1">>) @@ "nombre" :> Str(<<"H","a","c","i","e","n","d","a">>) @@
       "sectores" :> Hierarchy(<<ConceptLegacy, ConceptMulti>>))

MinistryMulti ==
  Dict("id" :> Str(<<"M","2">>) @@ "nombre" :> Dict("fr" :> Str(<<"I","n","t","e2","r","i","e","u","r">>)) @@
       "sectores" :> Hierarchy(<<ConceptFrOnly, ConceptMulti, ConceptNoName, ConceptUntranslated>>))

\* no "sectores" key at all
MinistryBare == Dict("id" :> Str(<<"M","3">>) @@ "nombre" :> Str(<<"O","b","r","a","s">>))

\* a sector without "categorias" beside a full one
MinistrySparse ==
  Dict("id" :> Str(<<"M","5">>) @@ "nombre" :> Str(<<"S","a","l","u","d">>) @@ "nombre_en" :> Str(<<"H","e","a","l","t","h">>) @@
       "sectores" :> List(<< Dict("id" :> Str(<<"S","0">>)) >> \o Hierarchy(<<ConceptSuffix, ConceptLegacy>>).v))

\* a concept that is a string
MinistryBadConcept ==
  Dict("id" :> Str(<<"M","4">>) @@ "nombre" :> Str(<<"O","b","r","a","s">>) @@
       "sectores" :> Hierarchy(<<ConceptLegacy, Str(<<"x">>)>>))

\* a sector that is a string
MinistryBadSector ==
  Dict("id" :> Str(<<"M","6">>) @@ "nombre" :> Str(<<"O","b","r","a","s">>) @@
       "sectores" :> List(<< Str(<<"x">>) >>))

\* a concept with an id and a plain name
PlainConcept(id, nombre) == Dict("id" :> Str(id) @@ "nombre" :> Str(nombre))

\* a ministry named in Spanish and in English, with a single concept
MinistryOne ==
  Dict("id" :> Str(<<"M","8">>) @@
       "nombre" :> Dict("es" :> Str(<<"O","b","r","a","s">>) @@ "en" :> Str(<<"W","o","r","k","s">>)) @@
       "sectores" :> Hierarchy(<< PlainConcept(<<"T","8">>, <<"S","e","l","l","o">>) >>))

Documents ==
  { List(<<MinistryPlain>>),
    List(<<MinistryMulti, MinistryBare>>),
    List(<<MinistryBare, MinistrySparse>>),
    List(<<MinistryOne, MinistryPlain>>),
    Dict("ministries" :> List(<<MinistryPlain>>)),
    List(<<Str(<<"x">>), MinistryPlain>>),
    List(<<MinistryBadConcept>>),
    List(<<MinistrySparse, MinistryBadSector>>),
    List(<<>>),
    Dict(<<>>) }

\* the input file: readable and valid JSON, or not
JsonFiles == [ok : {TRUE}, json : Documents] \cup {[ok |-> FALSE, json |-> List(<<>>)]}

\* load_data(): the parsed document, [] when the file cannot be read or parsed
load_data(json_file) == IF json_file.ok THEN json_file.json ELSE List(<<>>)

\* "data is None": never the case, load_data gives a document or []
Falsy_OnlyNone(data) == FALSE

\* "not data"
Falsy(data) == IF IsDict(data) THEN DOMAIN data.v = {} ELSE data.v = <<>>

\* what "for ministerio in data" yields: the items of a list, the keys of a mapping
RECURSIVE KeyItems(_)
KeyItems(keys) ==
  IF keys = {} THEN <<>>
  ELSE LET k == CHOOSE k \in keys : TRUE IN <<Str(<<k>>)>> \o KeyItems(keys \ {k})

Iterate(data) == IF IsDict(data) THEN KeyItems(DOMAIN data.v) ELSE data.v

\* --------------------------------------------------------------------- state
VARIABLES
  json_file,                 \* the file at json_file_path
  augmentation_enabled,      \* self.augmentation_enabled
  num_examples_per_concept,  \* self.num_examples_per_concept
  corpus,                    \* self.corpus
  stats,                     \* self.stats
  pc,                        \* where main() stands
  mi,                        \* generate_corpus: index of the ministry in turn
  ci,                        \* generate_corpus: index of the concept in turn
  result,                    \* what generate_corpus gave: none, True, False, raised
  concept_names,             \* _process_ministerio: concept_names of its last call
  tape,                      \* the random stream of the run
  pos,                       \* draws consumed so far
  output_file,               \* the file at output_file_path
  save_result,               \* what save_corpus gave: none, True, False, raised
  aq,                        \* one call of augment_question, stage by stage
  cl,                        \* one template through the answer selection
  earlier                    \* what each earlier generate_corpus() call on this generator left

vars == <<json_file, augmentation_enabled, num_examples_per_concept, corpus, stats, pc, mi, ci,
          result, concept_names, tape, pos, output_file, save_result, aq, cl, earlier>>

runVars == <<json_file, augmentation_enabled, num_examples_per_concept, corpus, stats, pc, mi, ci,
             result, concept_names, tape, pos, output_file, save_result, earlier>>

\* CorpusGenerator.__init__
InitStats ==
  [total_examples |-> 0, concepts |-> 0,
   languages |-> [l \in Range(Languages) |-> 0],
   augmented_examples |-> 0]

NoNames == [ministry |-> 0, names |-> [l \in Range(Languages) |-> <<>>]]

AqIdle == [stage |-> "idle"]
ClIdle == [stage |-> "idle"]

InitRun ==
  /\ corpus = <<>>
  /\ stats = InitStats
  /\ pc = "start"
  /\ mi = 0
  /\ ci = 0
  /\ result = "none"
  /\ concept_names = NoNames
  /\ pos = 0
  /\ output_file = [state |-> "absent", data |-> <<>>]
  /\ save_result = "none"
  /\ earlier = <<>>

Init ==
  /\ json_file \in JsonFiles
  /\ augmentation_enabled \in BOOLEAN
  /\ num_examples_per_concept \in 0..MaxExamples
  /\ tape \in [1..TapeLen -> Raw]
  /\ InitRun
  /\ aq = AqIdle
  /\ cl = ClIdle

Config == [augmentation_enabled |-> augmentation_enabled,
           num_examples_per_concept |-> num_examples_per_concept,
           d |-> tape]

Acc == [examples |-> <<>>, stats |-> stats, pos |-> pos]

Data == load_data(json_file)

Ministerio(m) == Iterate(Data)[m]

\* -------------------------------------------------------------- generate_corpus
\* where the nested loops stand after concept c - 1 of ministry m
Advance(m, c) ==
  IF c <= Len(Conceptos(Ministerio(m))) THEN [pc |-> "concepto", mi |-> m, ci |-> c]
  ELSE IF m < Len(Iterate(Data)) THEN [pc |-> "ministerio", mi |-> m + 1, ci |-> 0]
  ELSE [pc |-> "greeting", mi |-> m, ci |-> 0]

Goto(at) == pc' = at.pc /\ mi' = at.mi /\ ci' = at.ci

\* self.corpus.extend(examples), with the counters and the random source as
\* the call left them
Extend_Prepend(acc) == corpus' = acc.examples \o corpus /\ stats' = acc.stats /\ pos' = acc.pos

Extend(acc) == corpus' = corpus \o acc.examples /\ stats' = acc.stats /\ pos' = acc.pos

\* data = self.load_data(); if not data: return False
LoadData ==
  /\ pc = "start"
  /\ IF Falsy(Data)
     THEN pc' = "returned" /\ result' = "False" /\ mi' = mi
     ELSE pc' = "ministerio" /\ result' = result /\ mi' = 1
  /\ UNCHANGED <<json_file, augmentation_enabled, num_examples_per_concept, corpus, stats, ci,
                 concept_names, tape, pos, output_file, save_result, aq, cl, earlier>>

\* the head of the loop body: ministerio.get(...) and
\* self.corpus.extend(self._process_ministerio(ministerio))
ProcessMinisterio ==
  /\ pc = "ministerio"
  /\ LET ministerio == Ministerio(mi) IN
     IF ~IsDict(ministerio) \/ Malformed(ministerio)
     THEN /\ pc' = "raised"
          /\ result' = "raised"
          /\ UNCHANGED <<corpus, stats, pos, concept_names, mi, ci>>
     ELSE /\ Extend(_process_ministerio(Acc, Config, ministerio))
          /\ concept_names' = [ministry |-> mi,
                               names |-> [l \in Range(Languages) |-> ConceptNames(ministerio, l, Languages)]]
          /\ Goto(Advance(mi, 1))
          /\ result' = result
  /\ UNCHANGED <<json_file, augmentation_enabled, num_examples_per_concept, tape, output_file,
                 save_result, aq, cl, earlier>>

\* the name with the "en" entry of a mapping tried before its "es" entry
MinisterioNombreStr_EnglishFirst(ministerio) ==
  LET ministerio_nombre == Get(ministerio, "nombre", Str(<<>>)) IN
  IF IsDict(ministerio_nombre)
  THEN Get(ministerio_nombre, "en", Get(ministerio_nombre, "es", Get(ministerio, "id", Str(<<>>)))).v
  ELSE ministerio_nombre.v

\* ministerio_nombre_str: the "es" entry of a mapping name, else the id
MinisterioNombreStr(ministerio) ==
  LET ministerio_nombre == Get(ministerio, "nombre", Str(<<>>)) IN
  IF IsDict(ministerio_nombre)
  THEN Get(ministerio_nombre, "es", Get(ministerio, "id", Str(<<>>))).v
  ELSE ministerio_nombre.v

\* the counter moved only by concepts that produced examples
CountConcept_IfExamples(st, concepto_examples) ==
  IF concepto_examples = <<>> THEN st ELSE [st EXCEPT !.concepts = @ + 1]

\* self.stats["concepts"] += 1
CountConcept(st, concepto_examples) == [st EXCEPT !.concepts = @ + 1]

\* what one concept returned, with the concept counted
Counted(acc) == [acc EXCEPT !.stats = CountConcept(acc.stats, acc.examples)]

\* the innermost loop body: one concept processed, appended and counted
VisitConcepto ==
  /\ pc = "concepto"
  /\ LET ministerio == Ministerio(mi)
         concepto == Conceptos(ministerio)[ci]
     IN  /\ Extend(Counted(_process_concepto(Acc, Config, concepto, MinisterioNombreStr(ministerio))))
         /\ Goto(Advance(mi, ci + 1))
  /\ UNCHANGED <<json_file, augmentation_enabled, num_examples_per_concept, result, concept_names,
                 tape, output_file, save_result, aq, cl, earlier>>

\* the greeting and thanks examples are appended and generate_corpus returns True
GenerateGreetings ==
  /\ pc = "greeting"
  /\ Extend(_generate_greeting_examples(Acc, Config))
  /\ pc' = "returned"
  /\ result' = "True"
  /\ UNCHANGED <<json_file, augmentation_enabled, num_examples_per_concept, mi, ci, concept_names,
                 tape, output_file, save_result, aq, cl, earlier>>

\* ------------------------------------------------------------------ save_corpus
\* what the file system does to one save: all is written, os.makedirs raises,
\* open raises, or the write breaks off after the file was truncated
SaveOutcomes == {"ok", "makedirs_error", "open_error", "write_error"}

SaveCorpus ==
  /\ pc = "returned"
  /\ \E outcome \in SaveOutcomes :
       IF corpus = <<>>
       THEN save_result' = "False" /\ output_file' = output_file /\ pc' = "exit"
       ELSE IF outcome = "makedirs_error"
       THEN save_result' = "raised" /\ output_file' = output_file /\ pc' = "raised"
       ELSE IF outcome = "open_error"
       THEN save_result' = "False" /\ output_file' = output_file /\ pc' = "exit"
       ELSE IF outcome = "write_error"
       THEN save_result' = "False" /\ output_file' = [state |-> "partial", data |-> <<>>] /\ pc' = "exit"
       ELSE save_result' = "True" /\ output_file' = [state |-> "complete", data |-> corpus] /\ pc' = "exit"
  /\ UNCHANGED <<json_file, augmentation_enabled, num_examples_per_concept, corpus, stats, mi, ci,
                 result, concept_names, tape, pos, aq, cl, earlier>>

\* a caller that calls generate_corpus() once more on the same generator:
\* corpus and stats are set in __init__ only, the random stream goes on
CallAgain ==
  /\ pc = "returned"
  /\ Len(earlier) + 1 < MaxCalls
  /\ earlier' = Append(earlier, [stats |-> stats, size |-> Len(corpus)])
  /\ pc' = "start"
  /\ mi' = 0
  /\ ci' = 0
  /\ result' = "none"
  /\ UNCHANGED <<json_file, augmentation_enabled, num_examples_per_concept, corpus, stats,
                 concept_names, tape, pos, output_file, save_result, aq, cl>>

Next ==
  \/ LoadData
  \/ ProcessMinisterio
  \/ VisitConcepto
  \/ GenerateGreetings
  \/ SaveCorpus

Spec == Init /\ [][Next]_vars

\* the generator used as a library: generate_corpus() called up to MaxCalls times
NextTwice ==
  \/ Next
  \/ CallAgain

SpecTwice == Init /\ [][NextTwice]_vars
\* ------------------------------------------- augment_question, stage by stage
\* the questions and languages augment_question is tried on
AugInputs ==
  { [language |-> "es", question |-> <<"iq","Q","u","e1"," ","e","s"," ","e","l"," ","a"," ","b","?">>],
    [language |-> "es", question |-> <<"iq","A"," ","x"," ","y","?">>],
    [language |-> "es", question |-> <<"H","o","l","a">>],
    [language |-> "fr", question |-> <<"O","u2"," ","l","'","a"," ","b","?">>],
    [language |-> "fr", question |-> <<"E1","t","e1">>],
    [language |-> "en", question |-> <<"H","i">>],
    [language |-> "en", question |-> <<"A","b","c","?">>],
    [language |-> "en", question |-> <<"W","h","a","t"," ","i","s"," ","t","h","e"," ","a"," ","b","?">>],
    [language |-> "en", question |-> <<"H","e","l","l","o">>] }

\* the stages in source order, and the most draws each one reads
StageOrder == <<"prefix", "typo", "accents", "punctuation", "shorten", "localism", "return">>

StageDraws == [prefix |-> 1, typo |-> 4, accents |-> 1, punctuation |-> 1, shorten |-> 2, localism |-> 3]

Idle ==
  /\ json_file = [ok |-> FALSE, json |-> List(<<>>)]
  /\ num_examples_per_concept = 0
  /\ tape = [i \in 1..TapeLen |-> 0]
  /\ InitRun

InitAug ==
  /\ Idle
  /\ augmentation_enabled \in BOOLEAN
  /\ \E input \in AugInputs, p \in {DefaultProb, ProbOver(DefaultProb, 2)} :
       aq = [stage |-> "call", original |-> input.question, question |-> input.question,
             language |-> input.language, p |-> p, gates |-> 0, gate |-> "none",
             applied |-> <<>>, result |-> <<>>]
  /\ cl = ClIdle

\* the entry without the global gate: an enabled call goes straight to the
\* operators
AugCall_NoGate ==
  /\ aq.stage = "call"
  /\ IF ~augmentation_enabled
     THEN aq' = [aq EXCEPT !.stage = "done", !.result = aq.original]
     ELSE aq' = [aq EXCEPT !.stage = "prefix"]
  /\ UNCHANGED <<runVars, cl>>

\* the entry of augment_question: the enabled test and the global gate
AugCall ==
  /\ aq.stage = "call"
  /\ IF ~augmentation_enabled
     THEN aq' = [aq EXCEPT !.stage = "done", !.result = aq.original]
     ELSE \E u \in Raw :
            IF AboveHalf(u)
            THEN aq' = [aq EXCEPT !.stage = "done", !.result = aq.original, !.gates = @ + 1,
                                  !.gate = "unchanged"]
            ELSE aq' = [aq EXCEPT !.stage = "prefix", !.gates = @ + 1, !.gate = "mutate"]
  /\ UNCHANGED <<runVars, cl>>

\* one operator on the output of the previous one, its draws chosen freely
AugStep(name, Op(_, _, _, _, _)) ==
  /\ aq.stage = name
  /\ \E d \in [1..StageDraws[name] -> Raw] :
       aq' = [aq EXCEPT !.question = Op(aq.question, aq.language, aq.p, d, 0).q,
                        !.stage = StageOrder[IndexOf(StageOrder, name) + 1],
                        !.applied = Append(@, name)]
  /\ UNCHANGED <<runVars, cl>>

AugStepPrefix == AugStep("prefix", AugPrefix)
AugStepTypo == AugStep("typo", AugTypo)
AugStepAccents == AugStep("accents", AugAccents)
AugStepPunctuation == AugStep("punctuation", AugPunctuation)
AugStepShorten == AugStep("shorten", AugShorten)
AugStepLocalism == AugStep("localism", AugLocalism)

\* the final test and the capital letter
AugStepReturn ==
  /\ aq.stage = "return"
  /\ aq' = [aq EXCEPT !.stage = "done", !.result = AugReturn(aq.question, aq.original)]
  /\ UNCHANGED <<runVars, cl>>

NextAug ==
  \/ AugCall
  \/ AugStepPrefix
  \/ AugStepTypo
  \/ AugStepAccents
  \/ AugStepPunctuation
  \/ AugStepShorten
  \/ AugStepLocalism
  \/ AugStepReturn

SpecAug == InitAug /\ [][NextAug]_vars

\* --------------------------------------------- answer selection, per template
\* templates beyond the registry that carry trigger words of two categories
SyntheticTemplates ==
  [es |-> { <<"iq","Q","u","e1"," ","t","a","s","a"," ","c","o","b","r","a"," ","e","l"," ","m","i","n","i","s","t","e","r","i","o"," ","p","o","r"," ","{concepto}","?">>,
            <<"iq","Q","u","e1"," ","m","i","n","i","s","t","e","r","i","o"," ","f","i","j","a"," ","e","l"," ","P","R","E","C","I","O"," ","d","e"," ","{concepto}","?">>,
            <<"iq","Q","u","e1"," ","d","o","c","u","m","e","n","t","o","s"," ","p","i","d","e"," ","e","l"," ","m","i","n","i","s","t","e","r","i","o"," ","p","a","r","a"," ","{concepto}","?">> },
   fr |-> { <<"C","o","m","b","i","e","n"," ","c","o","u3","t","e"," ","{concepto}"," ","a","u"," ","m","i","n","i","s","t","e2","r","e","?">>,
            <<"Q","u","e","l"," ","m","i","n","i","s","t","e2","r","e"," ","f","i","x","e"," ","l","a"," ","p","r","o","c","e1","d","u","r","e"," ","d","e"," ","{concepto}","?">> },
   en |-> { <<"W","h","a","t"," ","f","e","e"," ","d","o","e","s"," ","t","h","e"," ","m","i","n","i","s","t","r","y"," ","c","h","a","r","g","e"," ","f","o","r"," ","{concepto}","?">>,
            <<"W","h","i","c","h"," ","d","e","p","a","r","t","m","e","n","t"," ","s","e","t","s"," ","t","h","e"," ","c","o","s","t"," ","o","f"," ","{concepto}","?">>,
            <<"W","h","i","c","h"," ","M","i","n","i","s","t","r","y"," ","e","x","p","l","a","i","n","s"," ","t","h","e"," ","p","r","o","c","e","s","s"," ","f","o","r"," ","{concepto}","?">> }]

\* the resolved record the templates are answered for
SampleRecord ==
  [concepto_id |-> <<"T","1">>, nombre |-> <<"V","i","s","a">>,
   tasa_expedicion |-> <<"5","0">>, tasa_renovacion |-> <<"3","0">>,
   docs |-> <<"D","N","I">>, proc |-> <<>>,
   ministerio_traducido |-> <<"H","a","c","i","e","n","d","a">>]

\* the same concept with documents, with a procedure, with both or with none
SampleRecords ==
  { [SampleRecord EXCEPT !.docs = docs, !.proc = proc] :
      docs \in {<<>>, <<"D","N","I">>}, proc \in {<<>>, <<"I","r">>} }

InitClassify ==
  /\ Idle
  /\ augmentation_enabled = FALSE
  /\ aq = AqIdle
  /\ \E l \in Range(Languages) :
       \E t \in Range(QUESTION_TEMPLATES[l]) \cup SyntheticTemplates[l] :
         \E r \in SampleRecords, u \in Raw :
           cl = [stage |-> "drawn", lang |-> l, question_template |-> t, r |-> r, u |-> u]

\* the answer of _process_concepto for the drawn template
ClassifyTemplate ==
  /\ cl.stage = "drawn"
  /\ cl' = [stage |-> "answered", lang |-> cl.lang, question_template |-> cl.question_template,
            r |-> cl.r, u |-> cl.u,
            category |-> ResponseCategory(cl.question_template),
            category2 |-> ResponseCategory2(cl.question_template),
            response |-> _capitalize_first_letter(
                           ConceptResponse(cl.question_template, cl.lang, cl.r)),
            response2 |-> _capitalize_first_letter(
                            ConceptResponse2(cl.question_template, cl.lang, cl.r, cl.u))]
  /\ UNCHANGED <<runVars, aq>>

NextClassify == ClassifyTemplate

SpecClassify == InitClassify /\ [][NextClassify]_vars


\* ------------------------------------------- field resolution, per language
\* the texts a localized field may hold, one per language
NameTexts == [es |-> <<"P","a","s","e">>, fr |-> <<"P","e","r","m","i","s">>, en |-> <<"P","e","r","m","i","t">>]
DocsTexts == [es |-> <<"D","N","I">>, fr |-> <<"C","N","I">>, en |-> <<"I","D">>]
ProcTexts == [es |-> <<"I","r">>, fr |-> <<"A","l","l","e","r">>, en |-> <<"G","o">>]
MinistryTexts == [es |-> <<"S","a","l","u","d">>, fr |-> <<"S","a","n","t","e1">>, en |-> <<"H","e","a","l","t","h">>]

\* the language mappings of a field: every subset of the languages as keys
FieldMaps(texts) == {Dict([l \in S |-> Str(texts[l])]) : S \in SUBSET Range(Languages)}

\* concept records whose name, documents and procedure are language mappings
LocalizedConcepts ==
  {Dict("id" :> Str(<<"T","9">>) @@ "nombre" :> n @@ "documentos_requeridos" :> dd @@ "procedimiento" :> p) :
     n \in FieldMaps(NameTexts), dd \in FieldMaps(DocsTexts), p \in FieldMaps(ProcTexts)}

\* ministry records whose name is a language mapping
LocalizedMinistries == {Dict("id" :> Str(<<"M","9">>) @@ "nombre" :> n) : n \in FieldMaps(MinistryTexts)}

InitResolve ==
  /\ Idle
  /\ augmentation_enabled = FALSE
  /\ aq = AqIdle
  /\ \E concepto \in LocalizedConcepts, ministerio \in LocalizedMinistries, l \in Range(Languages) :
       cl = [stage |-> "node", lang |-> l, concepto |-> concepto, ministerio |-> ministerio]

\* what _process_concepto and _process_ministerio resolve for the language
ResolveFields ==
  /\ cl.stage = "node"
  /\ cl' = [stage |-> "resolved", lang |-> cl.lang, concepto |-> cl.concepto, ministerio |-> cl.ministerio,
            r |-> ConceptRecord(cl.concepto, MinisterioNombreStr(cl.ministerio), cl.lang, Languages),
            nombre_lang |-> MinistryName(cl.ministerio, cl.lang, Languages)]
  /\ UNCHANGED <<runVars, aq>>

NextResolve == ResolveFields

SpecResolve == InitResolve /\ [][NextResolve]_vars

\* ------------------------------------------------ one _process_concepto call
\* keywords that are blank after the split: " , " gives " " and " "
ConceptBlankKeywords ==
  Dict("id" :> Str(<<"T","6">>) @@ "nombre" :> Str(<<"V","i","s","a">>) @@
       "palabras_clave" :> Str(<<" ",","," ">>))

\* a keyword list with one blank entry among three
ConceptThreeKeywords ==
  Dict("id" :> Str(<<"T","7">>) @@ "nombre" :> Str(<<"V","i","s","a">>) @@
       "palabras_clave" :> Dict("es" :> List(<< Str(<<"v","i","s","a">>), Str(<<" ">>), Str(<<" ","p","a","s","e">>) >>)))

\* the concepts _process_concepto is tried on
SampleConcepts ==
  {ConceptLegacy, ConceptMulti, ConceptFrOnly, ConceptSuffix, ConceptNoName, ConceptUntranslated,
   ConceptBlankKeywords, ConceptThreeKeywords}

InitConcept ==
  /\ json_file = [ok |-> FALSE, json |-> List(<<>>)]
  /\ augmentation_enabled \in BOOLEAN
  /\ num_examples_per_concept \in 0..MaxRepeat
  /\ tape \in [1..TapeLen -> Raw]
  /\ InitRun
  /\ aq = AqIdle
  /\ \E concepto \in SampleConcepts :
       cl = [stage |-> "concepto", concepto |-> concepto, ministerio_nombre |-> <<"S","a","l","u","d">>]

\* examples = self._process_concepto(concepto, ministerio_nombre) on a fresh
\* generator, the examples kept in corpus
ProcessConcepto ==
  /\ cl.stage = "concepto"
  /\ Extend(_process_concepto(Acc, Config, cl.concepto, cl.ministerio_nombre))
  /\ cl' = [cl EXCEPT !.stage = "returned"]
  /\ UNCHANGED <<json_file, augmentation_enabled, num_examples_per_concept, pc, mi, ci, result,
                 concept_names, tape, output_file, save_result, aq, earlier>>

NextConcept == ProcessConcepto

SpecConcept == InitConcept /\ [][NextConcept]_vars

\* --------------------------------------------- one _process_ministerio call
\* six distinct concept names, one of them twice
MinistrySix ==
  Dict("id" :> Str(<<"M","7">>) @@ "nombre" :> Str(<<"S","a","l","u","d">>) @@
       "sectores" :> Hierarchy(<< PlainConcept(<<"T","1">>, <<"V","i","s","a">>),
                                  PlainConcept(<<"T","2">>, <<"P","a","s","e">>),
                                  PlainConcept(<<"T","3">>, <<"S","e","l","l","o">>),
                                  PlainConcept(<<"T","4">>, <<"V","i","s","a">>),
                                  PlainConcept(<<"T","5">>, <<"C","a","r","t","a">>),
                                  PlainConcept(<<"T","6">>, <<"T","i","m","b","r","e">>),
                                  PlainConcept(<<"T","7">>, <<"L","i","c","e","n","c","i","a">>) >>))

\* concepts named in French only: no Spanish and no English concept name
MinistryFrOnly ==
  Dict("id" :> Str(<<"M","9">>) @@ "nombre" :> Str(<<"O","b","r","a","s">>) @@
       "sectores" :> Hierarchy(<<ConceptUntranslated,
                                 Dict("nombre" :> Dict("fr" :> Str(<<"P","e","r","m","i","s">>)))>>))

\* the ministries _process_ministerio is tried on
SampleMinistries ==
  {MinistryPlain, MinistryMulti, MinistryBare, MinistrySparse, MinistrySix, MinistryOne, MinistryFrOnly}

InitMinistry ==
  /\ json_file = [ok |-> FALSE, json |-> List(<<>>)]
  /\ augmentation_enabled \in BOOLEAN
  /\ num_examples_per_concept = 0
  /\ tape \in [1..TapeLen -> Raw]
  /\ InitRun
  /\ aq = AqIdle
  /\ \E ministerio \in SampleMinistries : cl = [stage |-> "ministerio", ministerio |-> ministerio]

\* examples = self._process_ministerio(ministerio) on a fresh generator, the
\* examples kept in corpus
ProcessOneMinisterio ==
  /\ cl.stage = "ministerio"
  /\ Extend(_process_ministerio(Acc, Config, cl.ministerio))
  /\ cl' = [cl EXCEPT !.stage = "returned"]
  /\ UNCHANGED <<json_file, augmentation_enabled, num_examples_per_concept, pc, mi, ci, result,
                 concept_names, tape, output_file, save_result, aq, earlier>>

NextMinistry == ProcessOneMinisterio

SpecMinistry == InitMinistry /\ [][NextMinistry]_vars
\* ================================================================= properties
RECURSIVE SumOver(_, _)
SumOver(f, keys) == IF keys = <<>> THEN 0 ELSE f[keys[1]] + SumOver(f, Tail(keys))

NumMinisterios == Len(Iterate(Data))

\* concept nodes below the ministries before ministry m
RECURSIVE NodesBefore(_)
NodesBefore(m) == IF m <= 1 THEN 0 ELSE NodesBefore(m - 1) + Len(Conceptos(Ministerio(m - 1)))

\* concept c of ministry m has been through _process_concepto
Visited(m, c) ==
  \/ result = "True"
  \/ /\ result \in {"none", "raised"}
     /\ mi > 0
     /\ m < mi \/ (m = mi /\ pc = "concepto" /\ c < ci)

VisitedPairs ==
  {mc \in (1..NumMinisterios) \X (1..4) :
     /\ IsDict(Ministerio(mc[1]))
     /\ Visited(mc[1], mc[2])
     /\ mc[2] <= Len(Conceptos(Ministerio(mc[1])))}

Node(mc) == Conceptos(Ministerio(mc[1]))[mc[2]]
SuffixKeys(field) == {SuffixKey[field][l] : l \in Range(Languages)}
IdOf(node) == Get(node, "id", Str(<<>>)).v
NombreOf(node) == Get(node, "nombre", Str(<<>>))

\* indices of the concept and keyword examples of a concept id in a language
ExamplesOf(id, lang) ==
  {i \in 1..Len(corpus) : /\ corpus[i].concept_id = id
                          /\ corpus[i].language = lang
                          /\ corpus[i].metadata.query_type \in {"concepto", "keyword"}}

\* C1: in every reachable state stats.total_examples equals the sum of the
\* per-language counters stats.languages[L] over all languages.
C1_TotalIsSumOfLanguages == stats.total_examples = SumOver(stats.languages, Languages)

C1_Witness ==
  /\ result = "True"
  /\ stats.augmented_examples > 0
  /\ \A l \in Range(Languages) : stats.languages[l] > 0
  /\ stats.concepts > 0

\* C2: stats.concepts counts the concept nodes visited so far, one per node
\* whatever it yielded, is left alone by ministry and greeting processing, and
\* equals the number of concept nodes of the hierarchy once generate_corpus
\* has returned True.
C2_ConceptsCounted ==
  /\ pc = "ministerio" => stats.concepts = NodesBefore(mi)
  /\ pc = "concepto" => stats.concepts = NodesBefore(mi) + ci - 1
  /\ pc = "greeting" \/ result = "True" => stats.concepts = NodesBefore(NumMinisterios + 1)
  /\ result = "False" => stats.concepts = 0

C2_Witness ==
  /\ result = "True"
  /\ stats.concepts = 4
  /\ \E mc \in VisitedPairs : \A l \in Range(Languages) : ExamplesOf(IdOf(Node(mc)), l) = {}

\* the name mapping of the node has neither lang nor "es"
Untranslated(node, lang) ==
  /\ IsDict(NombreOf(node))
  /\ lang \notin DOMAIN NombreOf(node).v
  /\ "es" \notin DOMAIN NombreOf(node).v

\* C3 as claimed: a concept whose name mapping has neither L nor "es" emits
\* zero examples for L.
C3_UntranslatedEmitsNothing ==
  \A mc \in VisitedPairs : \A l \in Range(Languages) :
    Untranslated(Node(mc), l) => ExamplesOf(IdOf(Node(mc)), l) = {}

\* C3 amended: a concept whose name mapping has neither L nor "es" is named
\* by its id in L; it emits zero examples for L when that id is empty, and
\* otherwise its L examples (at least one when num_examples_per_concept > 0)
\* carry the id as the name; no example is built from an empty name.
C3_UntranslatedNamedById ==
  \A mc \in VisitedPairs : \A l \in Range(Languages) :
    LET id == IdOf(Node(mc))
        nombre == NombreOf(Node(mc))
    IN  /\ Untranslated(Node(mc), l) =>
             /\ id = <<>> => ExamplesOf(id, l) = {}
             /\ id # <<>> /\ num_examples_per_concept > 0 => ExamplesOf(id, l) # {}
             /\ \A i \in ExamplesOf(id, l) :
                  \/ Contains(corpus[i].answer, id)
                  \/ StartsWith(corpus[i].answer, _capitalize_first_letter(id))
        /\ IsDict(nombre) /\ l \in DOMAIN nombre.v /\ nombre.v[l].v = <<>> => ExamplesOf(id, l) = {}
        /\ ~IsDict(nombre) /\ nombre.v = <<>> /\ DOMAIN Node(mc).v \cap SuffixKeys("nombre") = {}
             => ExamplesOf(id, l) = {}

C3_Witness ==
  /\ result = "True"
  /\ \E mc \in VisitedPairs : \E l \in Range(Languages) :
       Untranslated(Node(mc), l) /\ IdOf(Node(mc)) # <<>> /\ ExamplesOf(IdOf(Node(mc)), l) # {}
  /\ \E mc \in VisitedPairs : \E l \in Range(Languages) :
       Untranslated(Node(mc), l) /\ IdOf(Node(mc)) = <<>>

\* legacy shape: a plain non-empty name and no nombre_<lang> key
Legacy(node) ==
  /\ NombreOf(node).t = "str"
  /\ NombreOf(node).v # <<>>
  /\ DOMAIN node.v \cap SuffixKeys("nombre") = {}

\* C4 as claimed: every question generated for a legacy-shaped concept, in
\* every language, contains the plain name verbatim.
C4_EveryQuestionHasName ==
  \A mc \in VisitedPairs : \A l \in Range(Languages) :
    Legacy(Node(mc)) =>
      \A i \in ExamplesOf(IdOf(Node(mc)), l) : Contains(corpus[i].question, NombreOf(Node(mc)).v)

\* C4 amended: for a legacy-shaped concept every language resolves to the
\* plain name: each language gets num_examples_per_concept original questions
\* from the concept templates and each of them contains the name verbatim
\* (keyword questions embed the keyword, augmented variants may alter it).
C4_OriginalQuestionsHaveName ==
  \A mc \in VisitedPairs : \A l \in Range(Languages) :
    Legacy(Node(mc)) =>
      LET originals == {i \in ExamplesOf(IdOf(Node(mc)), l) :
                          /\ corpus[i].metadata.query_type = "concepto"
                          /\ ~corpus[i].metadata.augmented}
      IN  /\ Cardinality(originals) = num_examples_per_concept
          /\ \A i \in originals : Contains(corpus[i].question, NombreOf(Node(mc)).v)

C4_Witness ==
  /\ num_examples_per_concept > 0
  /\ \E mc \in VisitedPairs :
       /\ Legacy(Node(mc))
       /\ \A l \in Range(Languages) :
            \E i \in ExamplesOf(IdOf(Node(mc)), l) :
              corpus[i].metadata.query_type = "concepto" /\ ~corpus[i].metadata.augmented

HasBothTriggers(question_template) ==
  /\ ContainsAny(Lower(question_template), PriceKeywords)
  /\ ContainsAny(Lower(question_template), MinistryKeywords)

\* C5: a template whose lower-cased text contains a price trigger and a
\* ministry trigger is answered with the price response template, never with
\* the ministry one, under both definitions of _process_concepto.
C5_PriceBeforeMinistry ==
  cl.stage = "answered" /\ HasBothTriggers(cl.question_template) =>
    /\ cl.category = "precio"
    /\ cl.category2 = "precio"
    /\ cl.response = _capitalize_first_letter(
                       Format(RESPONSE_TEMPLATES.precio[cl.lang], ConceptFields(SampleRecord)))
    /\ cl.response # _capitalize_first_letter(
                       Format(RESPONSE_TEMPLATES.ministerio[cl.lang], ConceptFields(SampleRecord)))

C5_Witness == cl.stage = "answered" /\ HasBothTriggers(cl.question_template)

\* C6 as claimed: whenever augment_question returns a string different from
\* its input, the first alphabetic character of that string is uppercase.
C6_FirstAlphabeticIsUpper ==
  aq.stage = "done" /\ aq.result # aq.original =>
    LET letters == SelectSeq(aq.result, IsAlpha)
    IN  letters # <<>> => letters[1] \in UpperSet

\* C7: augment_question returns the original input or a string that differs
\* from it and is longer than 3; a mutated string of length 3 or less is never
\* returned.
C7_OriginalOrLongerThanThree ==
  aq.stage = "done" => aq.result = aq.original \/ Len(aq.result) > 3

C7_Witness ==
  /\ aq.stage = "done"
  /\ aq.question # aq.original
  /\ Len(aq.question) <= 3
  /\ aq.result = aq.original

\* the name each concept below ministry m resolves to on the ministry path
ResolvedNames(m, lang) ==
  LET cs == Conceptos(Ministerio(m))
  IN  [i \in 1..Len(cs) |-> Resolve(LocalizedView(cs[i], "nombre", Languages), lang, <<>>)]

\* C8: for each language the concept-name list of _process_ministerio holds
\* every resolved non-empty name of the ministry exactly once, in the order
\* of first appearance in the hierarchy.
C8_MinistryNamesDeduplicated ==
  concept_names.ministry # 0 =>
    \A l \in Range(Languages) :
      LET names == concept_names.names[l]
          all == ResolvedNames(concept_names.ministry, l)
      IN  /\ \A i, j \in 1..Len(names) : i < j => names[i] # names[j]
          /\ Range(names) = Range(all) \ {<<>>}
          /\ \A i, j \in 1..Len(names) : i < j => IndexOf(all, names[i]) < IndexOf(all, names[j])

C8_Witness ==
  /\ concept_names.ministry # 0
  /\ \E l \in Range(Languages) :
       LET all == ResolvedNames(concept_names.ministry, l)
       IN  /\ \E i, j \in 1..Len(all) : i < j /\ all[i] = all[j] /\ all[i] # <<>>
           /\ Len(concept_names.names[l]) = 2

\* C9 as claimed: an object whose "ministries" key holds the ministry list is
\* accepted like the bare list.
C9_ObjectShapeAccepted ==
  json_file.ok /\ IsDict(json_file.json) /\ "ministries" \in DOMAIN json_file.json.v
    => result # "raised"

\* C10 as claimed: generate_corpus never aborts on a node that is not a
\* mapping.
C10_MalformedNodeSkipped ==
  json_file.ok /\ ~IsDict(json_file.json) => result # "raised"


\* ------------------------------------------------------------ error handling
\* C11: when the input file cannot be read or parsed, generate_corpus returns
\* False, the corpus stays empty and the counters zero, and the save_corpus
\* that follows returns False and writes no output file
C11_LoadErrorLeavesNothing ==
  (~json_file.ok /\ pc # "start") =>
    /\ result = "False"
    /\ corpus = <<>>
    /\ stats = InitStats
    /\ output_file.state = "absent"
    /\ save_result \in {"none", "False"}

\* an unreadable input, after generate_corpus and save_corpus both returned
C11_Witness == ~json_file.ok /\ pc = "exit" /\ result = "False" /\ save_result = "False"

\* C12: generate_corpus returns True for every input file that exists and
\* parses as JSON, a document with an empty ministry list included, and
\* False only for a missing or unparsable input
C12_ParsableInputSucceeds ==
  result # "none" => (result = "True" <=> json_file.ok)

\* C13: a save_corpus that fails, because the output directory cannot be
\* created or the write breaks off, returns False instead of raising and
\* leaves no partial output file
C13_SaveFailureIsClean ==
  save_result # "none" =>
    /\ save_result \in {"True", "False"}
    /\ (save_result = "False" => output_file.state # "partial")

\* ------------------------------------------------------- no cross-call state
\* C14: a second generate_corpus() on the same generator with the same input
\* leaves corpus and stats describing one run: as many concepts and as many
\* non-augmented examples as the first call left, every example counted once
C14_SecondCallDescribesOneRun ==
  (Len(earlier) = 1 /\ pc = "returned" /\ result = "True") =>
    /\ stats.concepts = earlier[1].stats.concepts
    /\ stats.total_examples - stats.augmented_examples =
         earlier[1].stats.total_examples - earlier[1].stats.augmented_examples
    /\ Len(corpus) - stats.augmented_examples = earlier[1].size - earlier[1].stats.augmented_examples

\* ------------------------------------------------------------- example ids
\* the ids of the ministries and of the concepts below them, in document order
NodeIds ==
  Flatten([m \in 1..NumMinisterios |->
             <<IdOf(Ministerio(m))>> \o
             [c \in 1..Len(Conceptos(Ministerio(m))) |-> IdOf(Conceptos(Ministerio(m))[c])]])

\* the hierarchy was walked to the end and no two of its nodes share an id
DistinctNodeIds ==
  /\ result = "True"
  /\ \A i, j \in 1..Len(NodeIds) : i # j => NodeIds[i] # NodeIds[j]

\* C15: in a corpus generated from a hierarchy whose concept and ministry ids
\* are pairwise distinct, no two examples share an id
C15_ExampleIdsUnique ==
  DistinctNodeIds => \A i, j \in 1..Len(corpus) : i # j => corpus[i].id # corpus[j].id

\* ---------------------------------------------------------- example records
QueryTypes == {"concepto", "keyword", "ministerio_general", "greeting", "thanks"}

NumOriginals(c) == Cardinality({i \in 1..Len(c) : ~c[i].metadata.augmented})

\* C17: stats.augmented_examples never exceeds stats.total_examples, and
\* whatever a step adds to augmented_examples it also adds to total_examples,
\* on top of what the step adds for the original examples it appends
C17_AugmentedWithinTotal ==
  /\ [](stats.augmented_examples <= stats.total_examples)
  /\ [][/\ stats'.augmented_examples >= stats.augmented_examples
        /\ (stats'.augmented_examples - stats.augmented_examples)
             + (NumOriginals(corpus') - NumOriginals(corpus))
             <= stats'.total_examples - stats.total_examples]_vars

\* a run that has counted augmented examples
C17_Witness == result = "True" /\ stats.augmented_examples > 1

\* ------------------------------------------------------ answer categories
\* the first category whose trigger words the lower-cased template contains,
\* in the order price, documents, procedure, ministry, else general
FirstTriggered(question_template) ==
  LET t == Lower(question_template) IN
  IF ContainsAny(t, PriceKeywords) THEN "precio"
  ELSE IF ContainsAny(t, DocumentKeywords) THEN "documentos"
  ELSE IF ContainsAny(t, ProcedureKeywords) THEN "procedimiento"
  ELSE IF ContainsAny(t, MinistryKeywords) THEN "ministerio"
  ELSE "informacion_general"

\* C19: _process_concepto puts every drawn template in the first category,
\* in the order price, documents, procedure, ministry, general, whose trigger
\* words it contains: a documents trigger without a price trigger gives the
\* documents category, a procedure trigger without price or documents
\* trigger the procedure category
C19_FixedOrderClassification ==
  cl.stage = "answered" => cl.category = FirstTriggered(cl.question_template)

\* the answers the claim allows for category "documentos" or "procedimiento":
\* the category template with the field when there is one, else a fallback
\* sentence with the concept name
CategoryAnswers(category, field, lang, r) ==
  IF field # <<>>
  THEN {_capitalize_first_letter(Format(RESPONSE_TEMPLATES[category][lang], ConceptFields2(r)))}
  ELSE {_capitalize_first_letter(Format(FALLBACK_RESPONSES[lang][k], "{concepto}" :> r.nombre)) :
          k \in 1..Len(FALLBACK_RESPONSES[lang])}

\* C20: a template of the documents (procedure) category is answered from
\* the documents (procedure) response template holding the resolved field
\* when the field is non-empty, and by a fallback sentence with the concept
\* name when the field resolved empty
C20_DocumentsAndProcedureAnswers ==
  cl.stage = "answered" =>
    /\ FirstTriggered(cl.question_template) = "documentos" =>
         cl.response \in CategoryAnswers("documentos", cl.r.docs, cl.lang, cl.r)
    /\ FirstTriggered(cl.question_template) = "procedimiento" =>
         cl.response \in CategoryAnswers("procedimiento", cl.r.proc, cl.lang, cl.r)

\* the second definition of _process_concepto classifies in that order and
\* answers the documents and procedure templates that way
SecondDefinitionAnswers ==
  cl.stage = "answered" =>
    /\ cl.category2 = FirstTriggered(cl.question_template)
    /\ cl.category2 = "documentos" =>
         cl.response2 \in CategoryAnswers("documentos", cl.r.docs, cl.lang, cl.r)
    /\ cl.category2 = "procedimiento" =>
         cl.response2 \in CategoryAnswers("procedimiento", cl.r.proc, cl.lang, cl.r)

\* =====================================================================
\* excel_to_json_converter.py: process_excel_data
\* =====================================================================
\* a cell of the sheet: text, or NaN for an empty cell
NaN == [t |-> "nan", v |-> <<>>]

\* re.sub(r'\s+', ' ', text): every run of blanks becomes one blank
RECURSIVE CollapseBlanks(_)
CollapseBlanks(s) ==
  IF Len(s) < 2 THEN s
  ELSE IF s[1] = " " /\ s[2] = " " THEN CollapseBlanks(Tail(s))
  ELSE <<s[1]>> \o CollapseBlanks(Tail(s))

\* clean_text(text): "" for NaN, else the text stripped, with its runs of
\* blanks collapsed (the cells hold no control characters)
clean_text(text) == IF text.t = "nan" THEN <<>> ELSE CollapseBlanks(Strip(text.v))

\* str(n).zfill(3)
Zfill3(n) == [i \in 1..(3 - Len(Digits(n))) |-> "0"] \o Digits(n)

\* id[4:]
AfterPrefix(id) == SubSeq(id, 5, Len(id))

\* create_tax_id(ministry_id, sector_id, service_id, tax_index)
create_tax_id(ministry_id, sector_id, service_id, tax_index) ==
  <<"t","a","x","_">> \o AfterPrefix(ministry_id) \o <<"_">> \o AfterPrefix(sector_id) \o <<"_">> \o
  AfterPrefix(service_id) \o <<"_">> \o Zfill3(tax_index + 1)

\* the cells of the four tracked columns
MinistereCells == {NaN, Str(<<"A">>), Str(<<"B">>)}
SecteurCells == {NaN, Str(<<"S">>), Str(<<"T">>)}
ServiceCells == {NaN, Str(<<"V"," ">>)}
ConceptCells == {NaN, Str(<<"c">>)}

SheetRows == [MINISTERE : MinistereCells, SECTEUR : SecteurCells, SERVICE : ServiceCells,
              CONCEPT : ConceptCells]

\* the sheets of one to MaxRows rows
Sheets == UNION {[1..n -> SheetRows] : n \in 1..MaxRows}

\* the locals of process_excel_data before its first loop (None is "", which
\* no test of the loop tells apart); index is the row the loop takes next
ConverterStart(df) ==
  [stage |-> "rows", df |-> df, index |-> 1,
   ministeres_data |-> <<>>,
   current_ministere |-> <<>>, current_secteur |-> <<>>, current_service |-> <<>>,
   ministry_counter |-> 1, sector_counter |-> 1, service_counter |-> 1,
   grouped_taxes |-> <<>>,
   out |-> <<>>]

\* "Traiter le ministère": a named ministry other than the current one
\* opens a new ministry
TrackMinistere(s, ministere_val) ==
  IF ministere_val # <<>> /\ ministere_val # s.current_ministere
  THEN [s EXCEPT !.current_ministere = ministere_val,
                 !.ministry_counter = @ + 1,
                 !.ministeres_data =
                    Append(@, [id |-> <<"m","i","n","_">> \o Zfill3(s.ministry_counter),
                               nom |-> ministere_val, secteurs |-> <<>>]),
                 !.sector_counter = 1]
  ELSE s

\* "Traiter le secteur": a named sector other than the current one opens a
\* new sector under the last ministry
TrackSecteur(s, secteur_val) ==
  IF secteur_val # <<>> /\ secteur_val # s.current_secteur
  THEN [s EXCEPT !.current_secteur = secteur_val,
                 !.sector_counter = @ + 1,
                 !.ministeres_data[Len(s.ministeres_data)].secteurs =
                    Append(@, [id |-> <<"s","e","c","_">> \o Zfill3(s.ministry_counter - 1) \o <<"_">> \o
                                      Zfill3(s.sector_counter),
                               nom |-> secteur_val, services |-> <<>>]),
                 !.service_counter = 1]
  ELSE s

\* the sectors of the last ministry
LastSecteurs(s) == s.ministeres_data[Len(s.ministeres_data)].secteurs

\* the services of the last sector of the last ministry
LastServices(s) == LastSecteurs(s)[Len(LastSecteurs(s))].services

\* "Traiter le service": a named service other than the current one opens a
\* new service under the last sector
TrackService(s, service_val) ==
  IF service_val # <<>> /\ service_val # s.current_service
  THEN [s EXCEPT !.current_service = service_val,
                 !.service_counter = @ + 1,
                 !.ministeres_data[Len(s.ministeres_data)].secteurs[Len(LastSecteurs(s))].services =
                    Append(@, [id |-> <<"s","r","v","_">> \o Zfill3(s.ministry_counter - 1) \o <<"_">> \o
                                      Zfill3(s.sector_counter - 1) \o <<"_">> \o Zfill3(s.service_counter),
                               nom |-> service_val, taxes |-> <<>>])]
  ELSE s

\* "Traiter la taxe": the tax joins the group of the last service. Of the tax
\* only the name is kept, with the row it came from; its other fields are
\* computed from the name and the amount cells alone
TrackTaxe(s, concept_val) ==
  IF concept_val = <<>> THEN s
  ELSE LET service_id == LastServices(s)[Len(LastServices(s))].id
           tax == [nom |-> concept_val, row |-> s.index]
       IN  IF service_id \in DOMAIN s.grouped_taxes
           THEN [s EXCEPT !.grouped_taxes[service_id] = Append(@, tax)]
           ELSE [s EXCEPT !.grouped_taxes = @ @@ (service_id :> <<tax>>)]

\* the body from "S'assurer qu'un service est défini" on
FromService(s, row) ==
  IF s.current_service = <<>> \/ LastServices(s) = <<>> THEN s
  ELSE TrackTaxe(s, clean_text(row.CONCEPT))

\* the body of the first loop from "S'assurer qu'un secteur est défini" on
FromSecteur(s, row) ==
  IF s.current_secteur = <<>> \/ LastSecteurs(s) = <<>> THEN s
  ELSE FromService(TrackService(s, clean_text(row.SERVICE)), row)

\* the body from "S'assurer qu'un ministère est défini" on
FromMinistere(s, row) ==
  IF s.current_ministere = <<>> \/ s.ministeres_data = <<>> THEN s
  ELSE FromSecteur(TrackSecteur(s, clean_text(row.SECTEUR)), row)

\* one turn of "for index, row in df.iterrows()"
TrackRow(s, row) ==
  IF /\ clean_text(row.MINISTERE) = <<>> /\ clean_text(row.SECTEUR) = <<>>
     /\ clean_text(row.SERVICE) = <<>> /\ clean_text(row.CONCEPT) = <<>>
  THEN s
  ELSE FromMinistere(TrackMinistere(s, clean_text(row.MINISTERE)), row)

\* "Deuxième passe": every service takes the taxes grouped under its id, each
\* with its tax id
WithTaxes(ministere, secteur, service, grouped_taxes) ==
  IF service.id \in DOMAIN grouped_taxes
  THEN [service EXCEPT !.taxes =
          @ \o [i \in 1..Len(grouped_taxes[service.id]) |->
                  [id |-> create_tax_id(ministere.id, secteur.id, service.id, i - 1),
                   nom |-> grouped_taxes[service.id][i].nom,
                   row |-> grouped_taxes[service.id][i].row]]]
  ELSE service

SecondPass(ministeres_data, grouped_taxes) ==
  [m \in 1..Len(ministeres_data) |->
     [ministeres_data[m] EXCEPT !.secteurs =
        [k \in 1..Len(@) |->
           [@[k] EXCEPT !.services =
              [v \in 1..Len(@) |->
                 WithTaxes(ministeres_data[m], ministeres_data[m].secteurs[k], @[v], grouped_taxes)]]]]]

HasTaxes(service) == service.taxes # <<>>
HasServices(secteur) == secteur.services # <<>>
HasSecteurs(ministere) == ministere.secteurs # <<>>

\* "Supprimer les services sans taxes"
DropEmptyServices(ministeres_data) ==
  [m \in 1..Len(ministeres_data) |->
     [ministeres_data[m] EXCEPT !.secteurs =
        [k \in 1..Len(@) |-> [@[k] EXCEPT !.services = SelectSeq(@, HasTaxes)]]]]

\* "Supprimer les secteurs sans services"
DropEmptySecteurs(ministeres_data) ==
  [m \in 1..Len(ministeres_data) |->
     [ministeres_data[m] EXCEPT !.secteurs = SelectSeq(@, HasServices)]]

\* "Supprimer les ministères sans secteurs"
DropEmptyMinisteres(ministeres_data) == SelectSeq(ministeres_data, HasSecteurs)

\* ---------------------------------------------------------------- the run
InitConvert ==
  /\ json_file = [ok |-> FALSE, json |-> List(<<>>)]
  /\ augmentation_enabled = FALSE
  /\ num_examples_per_concept = 0
  /\ tape = [i \in 1..TapeLen |-> 0]
  /\ InitRun
  /\ aq = AqIdle
  /\ \E df \in Sheets : cl = ConverterStart(df)

\* one turn of the first loop
ProcessRow ==
  /\ cl.stage = "rows"
  /\ cl.index <= Len(cl.df)
  /\ cl' = [TrackRow(cl, cl.df[cl.index]) EXCEPT !.index = cl.index + 1]
  /\ UNCHANGED <<json_file, augmentation_enabled, num_examples_per_concept, pc, mi, ci, result,
                 corpus, stats, pos, concept_names, tape, output_file, save_result, aq, earlier>>

\* the second pass, the cleaning of the empty structures and the return
ReturnMinisteres ==
  /\ cl.stage = "rows"
  /\ cl.index > Len(cl.df)
  /\ cl' = [cl EXCEPT !.stage = "returned",
                      !.out = DropEmptyMinisteres(DropEmptySecteurs(DropEmptyServices(
                                SecondPass(cl.ministeres_data, cl.grouped_taxes))))]
  /\ UNCHANGED <<json_file, augmentation_enabled, num_examples_per_concept, pc, mi, ci, result,
                 corpus, stats, pos, concept_names, tape, output_file, save_result, aq, earlier>>

NextConvert == ProcessRow \/ ReturnMinisteres

SpecConvert == InitConvert /\ [][NextConvert]_vars

\* ------------------------------------------------------- localized fields
\* the entry of a language mapping the chain names: mapping[L] when L is a
\* key, else mapping["es"] when "es" is a key, else the fallback
ChainEntry(mapping, lang, fallback) ==
  IF lang \in DOMAIN mapping.v THEN mapping.v[lang].v
  ELSE IF "es" \in DOMAIN mapping.v THEN mapping.v["es"].v
  ELSE fallback

\* C21: for a name given as a language mapping _process_concepto uses
\* mapping[L] if L is a key, else mapping["es"] if "es" is a key, else the
\* concept id; documents and procedure follow the same chain ending in the
\* empty string, the ministry name in _process_ministerio the same chain
\* ending in the ministry id
C21_LocalizedFieldChain ==
  cl.stage = "resolved" =>
    /\ cl.r.nombre = ChainEntry(cl.concepto.v["nombre"], cl.lang, cl.concepto.v["id"].v)
    /\ cl.r.docs = ChainEntry(cl.concepto.v["documentos_requeridos"], cl.lang, <<>>)
    /\ cl.r.proc = ChainEntry(cl.concepto.v["procedimiento"], cl.lang, <<>>)
    /\ cl.nombre_lang = ChainEntry(cl.ministerio.v["nombre"], cl.lang, cl.ministerio.v["id"].v)

\* French asked: a name with "es" and "fr" gives the French entry, documents
\* with "es" only the Spanish one, a procedure with "en" only nothing, and a
\* ministry name with "en" only the ministry id
C21_Witness ==
  /\ cl.stage = "resolved"
  /\ cl.lang = "fr"
  /\ DOMAIN cl.concepto.v["nombre"].v = {"es", "fr"} /\ cl.r.nombre = NameTexts["fr"]
  /\ DOMAIN cl.concepto.v["documentos_requeridos"].v = {"es"} /\ cl.r.docs = DocsTexts["es"]
  /\ DOMAIN cl.concepto.v["procedimiento"].v = {"en"} /\ cl.r.proc = <<>>
  /\ DOMAIN cl.ministerio.v["nombre"].v = {"en"} /\ cl.nombre_lang = <<"M","9">>

\* ------------------------------------------------ original/augmented pairs
\* the id without its last n characters
IdStem(id, n) == Take(id, Len(id) - n)

\* C22: an augmented example exists only with augmentation enabled; it stands
\* right after its original, has the same answer, language, concept_id,
\* query_type and index, carries augmented = true, a question different from
\* the original's, and the original's id with _aug in place of _orig
C22_AugmentedFollowsOriginal ==
  \A i \in 1..Len(corpus) :
    corpus[i].metadata.augmented =>
      /\ augmentation_enabled
      /\ i > 1
      /\ ~corpus[i - 1].metadata.augmented
      /\ corpus[i].answer = corpus[i - 1].answer
      /\ corpus[i].language = corpus[i - 1].language
      /\ corpus[i].concept_id = corpus[i - 1].concept_id
      /\ corpus[i].metadata = [corpus[i - 1].metadata EXCEPT !.augmented = TRUE]
      /\ corpus[i].question # corpus[i - 1].question
      /\ corpus[i].id = IdStem(corpus[i].id, 4) \o <<"_","a","u","g">>
      /\ corpus[i - 1].id = IdStem(corpus[i].id, 4) \o <<"_","o","r","i","g">>

\* a finished corpus with an augmented example in each of the four paths
C22_Witness ==
  /\ result = "True"
  /\ \A q \in {"concepto", "keyword", "ministerio_general", "greeting"} :
       \E i \in 1..Len(corpus) : corpus[i].metadata.augmented /\ corpus[i].metadata.query_type = q

\* ------------------------------------------- concept path, augmentation off
\* the languages, in order, in which the name of the concept resolves non-empty
NamedLanguages(concepto) == SelectSeq(Languages, LAMBDA l : ConceptName(concepto, l, Languages) # <<>>)

\* C23: with augmentation disabled no augmented example is emitted and
\* stats.augmented_examples stays 0; for a concept without keywords
\* _process_concepto emits, for each language in which the name resolves
\* non-empty, exactly num_examples_per_concept examples with the indices
\* 0..N-1 in ascending order, the concept's id, that language and
\* augmented = false, and nothing else
C23_PlainConceptExamples ==
  (cl.stage = "returned" /\ ~augmentation_enabled) =>
    /\ stats.augmented_examples = 0
    /\ \A i \in 1..Len(corpus) : ~corpus[i].metadata.augmented
    /\ "palabras_clave" \notin DOMAIN cl.concepto.v =>
         LET langs == NamedLanguages(cl.concepto)
             N == num_examples_per_concept
         IN  /\ Len(corpus) = N * Len(langs)
             /\ \A j \in 1..Len(langs) : \A k \in 0..(N - 1) :
                  LET e == corpus[(j - 1) * N + k + 1] IN
                  /\ e.id = IdOf(cl.concepto) \o <<"_">> \o LangText[langs[j]] \o <<"_">>
                              \o Digits(k) \o <<"_","o","r","i","g">>
                  /\ e.concept_id = IdOf(cl.concepto)
                  /\ e.language = langs[j]
                  /\ e.metadata.query_type = "concepto"
                  /\ e.metadata.augmented = FALSE

\* a concept without keywords whose name resolves in all three languages,
\* repeated MaxRepeat times
C23_Witness ==
  /\ cl.stage = "returned"
  /\ ~augmentation_enabled
  /\ "palabras_clave" \notin DOMAIN cl.concepto.v
  /\ num_examples_per_concept = MaxRepeat
  /\ Len(NamedLanguages(cl.concepto)) = 3
  /\ Len(corpus) = 3 * MaxRepeat

\* ------------------------------------------------------------ global gate
\* C24 as claimed: the gate is drawn exactly once in every call of
\* augment_question
C24_GateDrawnInEveryCall ==
  aq.stage = "done" => aq.gates = 1

\* C24 amended: a call with augmentation disabled returns its input without
\* drawing the gate; an enabled call draws the gate exactly once, before any
\* operator; when augmentation is disabled or the gate selects "unchanged"
\* the returned string is the input and none of the six operators was
\* applied, and otherwise the six operators ran in their fixed order
C24_GateOnceBeforeOperators ==
  /\ aq.stage \notin {"idle", "call"} =>
       /\ aq.gates = (IF augmentation_enabled THEN 1 ELSE 0)
       /\ aq.applied # <<>> => aq.gate = "mutate"
  /\ aq.stage = "done" =>
       IF ~augmentation_enabled \/ aq.gate = "unchanged"
       THEN aq.result = aq.original /\ aq.applied = <<>>
       ELSE aq.applied = SubSeq(StageOrder, 1, 6)

\* an enabled call in which the gate kept the question unchanged
C24_Witness ==
  /\ aq.stage = "done"
  /\ augmentation_enabled
  /\ aq.gate = "unchanged"
  /\ aq.gates = 1
  /\ aq.result = aq.original

\* ------------------------------------------------------------ ministry path
RECURSIVE TotalLen(_)
TotalLen(items) == IF items = <<>> THEN 0 ELSE Len(items[1]) + TotalLen(Tail(items))

\* the answer is the summary sentence of the language with exactly k of the
\* names in its list, each once, and nothing else
ListsNames(answer, names, k, nombre, lang) ==
  LET listed == SelectSeq(names, LAMBDA n : Contains(answer, n))
      frame == Format(RESPONSE_TEMPLATES.ministerio_general[lang],
                      "{ministerio}" :> nombre @@ "{conceptos}" :> <<>>)
  IN  /\ Len(listed) = k
      /\ Len(answer) = Len(frame) + TotalLen(listed)
                         + (IF k = 1 THEN 0 ELSE 2 * (k - 2) + Len(Conjunction(lang)))

\* C25: per language, _process_ministerio emits no example when the
\* ministry's concept-name list is empty, and otherwise exactly two original
\* examples, from the general question templates 0 and 1 of the language,
\* sharing one summary answer that lists min(5, count) distinct names of the
\* concept-name list
C25_MinistrySummaries ==
  (cl.stage = "returned" /\ "ministerio" \in DOMAIN cl) =>
    \A l \in Range(Languages) :
      LET names == ConceptNames(cl.ministerio, l, Languages)
          nombre == MinistryName(cl.ministerio, l, Languages)
          originals == SelectSeq(corpus, LAMBDA e : e.language = l /\ ~e.metadata.augmented)
      IN  IF names = <<>>
          THEN \A i \in 1..Len(corpus) : corpus[i].language # l
          ELSE /\ Len(originals) = 2
               /\ \A k \in 0..1 :
                    /\ originals[k + 1].question =
                         _capitalize_first_letter(
                           Format(GENERAL_QUESTION_TEMPLATES[l][k + 1], "{ministerio}" :> nombre))
                    /\ originals[k + 1].id =
                         IdOf(cl.ministerio) \o <<"_">> \o LangText[l] \o <<"_","g","e","n","e","r","a","l","_">>
                           \o Digits(k) \o <<"_","o","r","i","g">>
                    /\ originals[k + 1].metadata.query_type = "ministerio_general"
               /\ originals[1].answer = originals[2].answer
               /\ ListsNames(originals[1].answer, names, Min(5, Len(names)), nombre, l)

\* a ministry with six distinct concept names: five of them are listed
C25_Witness ==
  /\ cl.stage = "returned"
  /\ "ministerio" \in DOMAIN cl
  /\ Len(ConceptNames(cl.ministerio, "es", Languages)) = 6
  /\ \E i \in 1..Len(corpus) :
       /\ corpus[i].language = "es"
       /\ Len(SelectSeq(ConceptNames(cl.ministerio, "es", Languages),
                        LAMBDA n : Contains(corpus[i].answer, n))) = 5

\* ------------------------------------------------------------- keyword path
\* the keyword list _process_concepto draws from for the language
KeywordsOf(concepto, lang) == Keywords(KeywordView(concepto, Languages), lang)

Blank(keyword) == \A i \in 1..Len(keyword) : keyword[i] = " "

\* C26: per concept and language _process_concepto emits at most two
\* original keyword examples, one per drawn keyword that is not blank: none
\* when every keyword is blank or the keywords field is absent, min(2, count)
\* when none is blank; each has query_type "keyword", a metadata.keyword that
\* is a non-blank entry of the keyword list, a question holding the trimmed
\* keyword and an answer naming the concept
C26_KeywordExamples ==
  (cl.stage = "returned" /\ "concepto" \in DOMAIN cl) =>
    \A l \in Range(Languages) :
      LET keywords == KeywordsOf(cl.concepto, l)
          originals == SelectSeq(corpus, LAMBDA e : /\ e.language = l
                                                    /\ e.metadata.query_type = "keyword"
                                                    /\ ~e.metadata.augmented)
      IN  /\ Len(originals) <= 2
          /\ Len(originals) <= Len(keywords)
          /\ (\A k \in 1..Len(keywords) : Blank(keywords[k])) => originals = <<>>
          /\ "palabras_clave" \notin DOMAIN cl.concepto.v => originals = <<>>
          /\ (/\ \A k \in 1..Len(keywords) : ~Blank(keywords[k])
              /\ ConceptName(cl.concepto, l, Languages) # <<>>)
               => Len(originals) = Min(2, Len(keywords))
          /\ \A i \in 1..Len(originals) :
               LET e == originals[i] IN
               /\ e.metadata.keyword \in Range(keywords)
               /\ ~Blank(e.metadata.keyword)
               /\ Contains(e.question, Strip(e.metadata.keyword))
               /\ Contains(e.answer, ConceptName(cl.concepto, l, Languages))
               /\ e.concept_id = IdOf(cl.concepto)

\* a list with a blank entry among three keywords: two examples, one of them
\* for the keyword written with a leading blank
C26_Witness ==
  /\ cl.stage = "returned"
  /\ "concepto" \in DOMAIN cl
  /\ \E k \in 1..Len(KeywordsOf(cl.concepto, "es")) : Blank(KeywordsOf(cl.concepto, "es")[k])
  /\ \E i, j \in 1..Len(corpus) :
       /\ i < j
       /\ corpus[i].metadata.query_type = "keyword" /\ ~corpus[i].metadata.augmented
       /\ corpus[j].metadata.query_type = "keyword" /\ ~corpus[j].metadata.augmented
       /\ corpus[i].language = "es" /\ corpus[j].language = "es"
       /\ corpus[i].metadata.keyword # corpus[j].metadata.keyword

\* ------------------------------------------------------------ insertion order
\* every ministry of the document is a mapping whose hierarchy can be walked,
\* and no two of its ministries and concepts share an id
WalkableDistinct ==
  /\ json_file.ok
  /\ \A m \in 1..NumMinisterios : IsDict(Ministerio(m)) /\ ~Malformed(Ministerio(m))
  /\ \A i, j \in 1..Len(NodeIds) : i # j => NodeIds[i] # NodeIds[j]

\* the place of an example's source in the traversal: the place of its
\* ministry or concept among the nodes in document order, past all of them
\* for greetings and thanks, and 0 for an example of no node
TraversalRank(ids, example) ==
  IF example.metadata.query_type \in {"greeting", "thanks"} THEN Len(ids) + 1
  ELSE IF \E n \in 1..Len(ids) : ids[n] = example.concept_id
       THEN CHOOSE n \in 1..Len(ids) : ids[n] = example.concept_id
       ELSE 0

TraversalRanks(ids) == [i \in 1..Len(corpus) |-> TraversalRank(ids, corpus[i])]

NonDecreasing(ranks) ==
  /\ \A i \in 1..Len(ranks) : ranks[i] >= 1
  /\ \A i \in 1..Len(ranks) - 1 : ranks[i] <= ranks[i + 1]

\* C27: the corpus is in traversal order: the examples of a ministry's summary
\* come before those of its concepts, ministries and concepts follow the order
\* of the document, and greetings and thanks come after all of them
C27_InsertionOrderIsTraversalOrder ==
  WalkableDistinct => NonDecreasing(TraversalRanks(NodeIds))

\* a finished run over two ministries that left summary examples of both,
\* concept examples of both, and greetings
C27_Witness ==
  /\ WalkableDistinct
  /\ result = "True"
  /\ NumMinisterios = 2
  /\ \A m \in 1..2 :
       /\ \E i \in 1..Len(corpus) : /\ corpus[i].metadata.query_type = "ministerio_general"
                                    /\ corpus[i].concept_id = IdOf(Ministerio(m))
       /\ \E i \in 1..Len(corpus) : /\ corpus[i].metadata.query_type = "concepto"
                                    /\ corpus[i].concept_id = IdOf(Conceptos(Ministerio(m))[1])
  /\ \E i \in 1..Len(corpus) : corpus[i].metadata.query_type = "greeting"

\* ------------------------------------------------------ counters and corpus
\* the examples of the corpus marked as augmented
AugmentedEntries == {i \in 1..Len(corpus) : corpus[i].metadata.augmented}

\* C28: after a successful generate_corpus() on a fresh generator the corpus
\* has stats.total_examples entries, stats.augmented_examples of them marked
\* augmented
C28_CountersMatchCorpus ==
  result = "True" =>
    /\ Len(corpus) = stats.total_examples
    /\ Cardinality(AugmentedEntries) = stats.augmented_examples

\* a successful run that left augmented and original examples
C28_Witness ==
  /\ result = "True"
  /\ stats.augmented_examples >= 2
  /\ stats.total_examples > stats.augmented_examples

\* ------------------------------------------- the ministry of a concept example
\* the ministry's default-language value: a plain name as it is, the "es"
\* entry of a mapping, the ministry id when the mapping has no "es" entry
DefaultMinistryName(ministerio) ==
  LET nombre == Get(ministerio, "nombre", Str(<<>>)) IN
  IF nombre.t = "str" THEN nombre.v
  ELSE IF "es" \in DOMAIN nombre.v THEN nombre.v["es"].v
  ELSE IdOf(ministerio)

\* the concepts of the document, each with its ministry, in document order
ConceptNodes ==
  Flatten([m \in 1..NumMinisterios |->
             [c \in 1..Len(Conceptos(Ministerio(m))) |->
                [ministerio |-> Ministerio(m), concepto |-> Conceptos(Ministerio(m))[c]]]])

\* the answers of a concept in a language when name stands for the ministry
ConceptAnswers(concepto, name, lang) ==
  { _capitalize_first_letter(
      Format(RESPONSE_TEMPLATES[k][lang], ConceptFields(ConceptRecord(concepto, name, lang, Languages)))) :
    k \in {"precio", "ministerio", "informacion_general"} }

\* the example comes from a concept whose ministry's default name it carries
CarriesDefaultMinistry(nodes, example) ==
  \E n \in 1..Len(nodes) :
    /\ IdOf(nodes[n].concepto) = example.concept_id
    /\ example.metadata.ministry = DefaultMinistryName(nodes[n].ministerio)
    /\ example.metadata.query_type = "concepto" =>
         example.answer \in ConceptAnswers(nodes[n].concepto, DefaultMinistryName(nodes[n].ministerio),
                                           example.language)

AllCarryDefaultMinistry(nodes) ==
  \A i \in 1..Len(corpus) :
    corpus[i].metadata.query_type \in {"concepto", "keyword"} => CarriesDefaultMinistry(nodes, corpus[i])

\* C29: every concept and keyword example, whatever its language, carries as
\* metadata.ministry, and names in its answer, the ministry's default-language
\* value: the plain name, the "es" entry of a mapping, or the ministry id when
\* the mapping has no "es" entry
C29_ConceptPathUsesDefaultMinistryName ==
  WalkableDistinct => AllCarryDefaultMinistry(ConceptNodes)

\* an English concept example of a ministry named by a mapping with "es" and
\* "en" entries: it carries, and its answer names, the "es" entry
C29_Witness ==
  /\ WalkableDistinct
  /\ \E i \in 1..Len(corpus) :
       /\ corpus[i].language = "en"
       /\ corpus[i].metadata.query_type = "concepto"
       /\ corpus[i].concept_id = <<"T","8">>
       /\ corpus[i].metadata.ministry = <<"O","b","r","a","s">>
       /\ Contains(corpus[i].answer, <<"O","b","r","a","s">>)

\* ------------------------------------------------- converter: row tracking
\* the value of column col named most recently at row k of the sheet: the
\* cleaned cell of the last row up to k where it is not empty, "" when none
RECURSIVE LastNamed(_, _, _)
LastNamed(df, col, k) ==
  IF k = 0 THEN <<>>
  ELSE IF clean_text(df[k][col]) # <<>> THEN clean_text(df[k][col])
  ELSE LastNamed(df, col, k - 1)

\* row k holds a concept, and a ministry, a sector and a service are named by
\* it or by an earlier row
TaxRow(df, k) ==
  /\ clean_text(df[k].CONCEPT) # <<>>
  /\ LastNamed(df, "MINISTERE", k) # <<>>
  /\ LastNamed(df, "SECTEUR", k) # <<>>
  /\ LastNamed(df, "SERVICE", k) # <<>>

\* where the taxes of row k stand in the output
Placements(out, k) ==
  { p \in UNION { UNION { UNION { { <<m, s, v, t>> : t \in 1..Len(out[m].secteurs[s].services[v].taxes) } :
                                  v \in 1..Len(out[m].secteurs[s].services) } :
                          s \in 1..Len(out[m].secteurs) } :
                  m \in 1..Len(out) } :
      out[p[1]].secteurs[p[2]].services[p[3]].taxes[p[4]].row = k }

\* the tax at p stands under the ministry, sector and service named most
\* recently at row k
PlacedAsNamed(df, out, k, p) ==
  /\ out[p[1]].nom = LastNamed(df, "MINISTERE", k)
  /\ out[p[1]].secteurs[p[2]].nom = LastNamed(df, "SECTEUR", k)
  /\ out[p[1]].secteurs[p[2]].services[p[3]].nom = LastNamed(df, "SERVICE", k)
  /\ out[p[1]].secteurs[p[2]].services[p[3]].taxes[p[4]].nom = clean_text(df[k].CONCEPT)

\* C30: every row with a concept, for which a ministry, a sector and a service
\* are named by that row or an earlier one, yields exactly one tax of the
\* output, under the ministry, sector and service named most recently; no
\* such row is dropped
C30_EveryTaxRowYieldsOneTax ==
  ("df" \in DOMAIN cl /\ cl.stage = "returned") =>
    \A k \in 1..Len(cl.df) :
      TaxRow(cl.df, k) =>
        /\ Cardinality(Placements(cl.out, k)) = 1
        /\ \A p \in Placements(cl.out, k) : PlacedAsNamed(cl.df, cl.out, k, p)

\* the rows the claim speaks of that the output does place, and as named:
\* a tax of the output is never misplaced and never doubled
PlacedRowsArePlacedAsNamed ==
  ("df" \in DOMAIN cl /\ cl.stage = "returned") =>
    \A k \in 1..Len(cl.df) :
      /\ Cardinality(Placements(cl.out, k)) <= 1
      /\ \A p \in Placements(cl.out, k) : TaxRow(cl.df, k) /\ PlacedAsNamed(cl.df, cl.out, k, p)

\* a returned sheet whose second ministry starts with the sector name of the
\* first and has a concept on that row
SameSectorUnderNewMinistry ==
  /\ "df" \in DOMAIN cl
  /\ cl.stage = "returned"
  /\ Len(cl.df) >= 2
  /\ TaxRow(cl.df, 1)
  /\ TaxRow(cl.df, 2)
  /\ LastNamed(cl.df, "MINISTERE", 2) # LastNamed(cl.df, "MINISTERE", 1)
  /\ clean_text(cl.df[2].SECTEUR) = clean_text(cl.df[1].SECTEUR)
  /\ Placements(cl.out, 1) # {}
====
